---- MODULE Spec2Model ----
(***************************************************************************)
(* Synkti: preemption-response pipeline of a spot-instance node.           *)
(*                                                                         *)
(* The specifications share the variables below:                           *)
(*   Spec         - run_orchestrator on one node: the RAII guard, the      *)
(*                  monitor task and the failovers it starts (main.rs);    *)
(*   SpecFailover - FailoverManager::handle_preemption called as a library *)
(*                  with any configuration and candidates (failover.rs);   *)
(*   SpecDrain    - DrainManager::drain of the orchestrator crate and of   *)
(*                  the agent crate against a live inference engine;       *)
(*   SpecPeers    - PeerDiscovery: one-shot discoveries, the background    *)
(*                  refresher and readers of the shared snapshot;          *)
(*   SpecSelect   - NodeAssigner::select on any candidate slice;           *)
(*   SpecMemory   - the memory accounting of the simulator's Instance and  *)
(*                  of Ec2Instance;                                        *)
(*   SpecMigration - MigrationPlanner of the simulator (optimal and        *)
(*                  first-fit) and of the orchestrator;                    *)
(*   SpecLive     - Spec with the node's own steps taken fairly;           *)
(*   SpecElb      - LoadBalancerManager against the router's target group  *)
(*                  (SpecElbLive: its waits polled fairly);                *)
(*   SpecDrainElb - drain_with_elb of the agent crate;                     *)
(*   SpecSsm      - SsmExecutor::run_command and wait_for_command;         *)
(*   SpecMonitor  - SpotMonitor::check_notice and monitor_stream;          *)
(*   SpecSim      - Simulator::run of the simulation engine;               *)
(*   SpecSimLaunch - Simulator::run on spot-free fleets with tasks of any  *)
(*                  KV-cache size, its events handled fairly;              *)
(*   SpecNodePeers - the monitor task of run_orchestrator next to the      *)
(*                  peer refresher, over the snapshot lock they share.     *)
(* Time is counted in poll intervals (ticks): one sleep of a polling loop  *)
(* is one tick, and a timeout is a number of ticks.                        *)
(***************************************************************************)
EXTENDS Integers, Sequences, FiniteSets, TLC

\* ------------------------------------------------------------------ bounds
MaxPeers == 2
MaxDrainTicks == 1
MaxHealthTicks == 1
MaxFailovers == 2
MaxReq == 2
MaxSsmCalls == 1

\* ------------------------------------------------------- program constants
GRACE_PERIOD_SECONDS == 120
WorkloadMemoryMb == 8000

None == "None"

\* The notices the metadata endpoint can carry (SpotAction x seconds left).
SpotActions == {"Terminate", "Stop", "Hibernate"}

NoticeSeconds == {0, GRACE_PERIOD_SECONDS, GRACE_PERIOD_SECONDS + 1}

Notices == [action : SpotActions, seconds_until_action : NoticeSeconds]

NoNotice == [action |-> None, seconds_until_action |-> 0]

DrainStatuses == {"Draining", "Drained", "TimedOut", "Failed"}

Strategies == {"EarliestNode", "LeastLoaded", "WarmLeastLoaded", "Random"}

VARIABLES
    \* run_orchestrator (main task)
    pc,              \* position of run_orchestrator
    guard,           \* a SelfTerminatingGuard is alive in run_orchestrator's frame
    exitKind,        \* how run_orchestrator ended
    terminateCalls,  \* outcomes of the terminate() calls made for this node
    \* provider metadata endpoint
    endpoint,        \* the notice the endpoint carries, or NoNotice
    \* monitor task / handle_preemption
    mpc,             \* position of the monitor loop and of handle_preemption
    notice,          \* the notice handed to handle_preemption
    inflight,        \* handle_preemption invocations that have not returned
    started,         \* handle_preemption invocations so far
    lastYield,       \* action of the notice the stream yielded last
    peers,           \* the candidate list (peer snapshot)
    strategy,        \* FailoverConfig.assignment_strategy
    htimeout,        \* FailoverConfig.health_check_timeout, in ticks
    phases,          \* phases the current failover has entered
    drainResult,     \* what drain() returned to handle_preemption
    replacement,     \* index in peers of the selected replacement, 0 = none
    hcElapsed,       \* ticks spent in wait_for_healthy
    healthPolls,     \* health polls of the replacement
    hcResult,        \* result of wait_for_healthy
    warned,          \* the health-check warning was logged
    record,          \* the FailoverResult of the last failover
    ssmStarted,      \* instances a container-start command was dispatched to
    ssmCalls,        \* spawn_replacement_with_ssm calls so far
    \* DrainManager
    dvariant,        \* which crate's DrainManager runs
    dtimeout,        \* drain_timeout, in ticks
    dpc,             \* position of drain()
    delapsed,        \* ticks spent in wait_for_inflight
    dstatus,         \* the DrainStatus drain() returned
    obsRunning,      \* value get_running_requests returned in this poll
    lastPoll,        \* what the last poll saw
    gaugesAtReturn,  \* the engine's gauges when drain() returned
    \* inference engine on this node
    running, waiting, metricsOk, healthy,
    \* PeerDiscovery
    cloud,           \* provider's truth: lifecycle state of every peer instance
    cache,           \* PeerDiscovery.peers, the Vec behind the RwLock
    stable,          \* what the last completed write stored in the cache
    pending,         \* per task: the result discover_peers built, not yet stored
    writer,          \* the task holding the write lock, or None
    lastRead,        \* what the last get_peers returned
    selfSkipped,     \* a response listed the node itself and it was skipped
    \* NodeAssigner
    candidates,      \* the candidate slice handed to select
    assigner,        \* NodeAssigner.strategy
    selected,        \* what select returned: index in candidates, 0 for None
    \* accelerator memory accounting
    taskKv,          \* simulator: kv_cache_size_mb of every task
    simUsedMb,       \* simulator Instance.gpu_memory_used_mb
    simAssigned,     \* simulator: tasks assigned to the instance
    lastAssign,      \* what the last assign_task returned
    ec2UsedMb,       \* orchestrator Ec2Instance.gpu_memory_used_mb
    \* MigrationPlanner (both crates)
    displaced,       \* kv_cache_size_mb of the tasks to migrate, in slice order
    targets,         \* the instances offered as targets, in slice order
    gracePeriod,     \* grace_period_seconds handed to can_transfer_in_grace_period
    optimalPlan,     \* what plan_optimal_migration of the simulator returned
    naivePlan,       \* what plan_naive_migration returned
    transfer,       \* the plan and the answer of can_transfer_in_grace_period
    \* LoadBalancerManager and the router's target group
    tgHealth,        \* what the router reports for the target, or "Absent"
    lastCall,        \* the last register/deregister call that succeeded
    elbOp,           \* the wait in progress: wait_for_healthy or wait_for_drained
    elbPc,           \* position in the wait's loop
    elbTimeout,      \* its timeout, in poll intervals
    elbElapsed,      \* start.elapsed(), in poll intervals
    elbSeen,         \* what get_target_health returned last
    elbResult,       \* what the wait returned
    elbDrain,       \* what drain_with_elb returned
    \* SsmExecutor and the command channel
    cmdStatus,       \* status of the invocation on the command channel
    cmdId,           \* command ids handed out so far
    wfcPc,           \* position of run_command / wait_for_command
    wfcElapsed,      \* start.elapsed(), in poll intervals
    wfcSeen,         \* the status the last get_command_invocation reported
    wfcResult,      \* what run_command returned
    \* SpotMonitor and what the metadata endpoint answers
    imds,            \* how the endpoint answers a GET of the spot action
    monPc,           \* position of the stream's loop
    monPolls,        \* requests the stream has made
    monYields,       \* notices the stream has yielded
    checkAnswer,     \* the answer the last check_notice got
    checkResult,    \* what the last check_notice returned
    \* Simulator (discrete-event simulation engine)
    simPc,           \* position of Simulator::run
    simDuration,     \* the duration handed to run
    currentTime,     \* Simulator.current_time, in ticks
    eventQueue,      \* Simulator.event_queue, the events not yet popped
    simInstances,    \* Simulator.instances, by id (ids start at 1 here)
    simTasks,        \* Simulator.tasks, by id
    pendingTasks,    \* Simulator.pending_tasks
    lastEvent,       \* the event run() popped last
    affected,        \* affected_task_ids of the last handle_preemption
    swept            \* pending_tasks as the last sweep found it

nodeVars == <<pc, guard, exitKind, terminateCalls, endpoint>>

failVars == <<mpc, notice, inflight, started, lastYield, peers, strategy, htimeout,
              phases, drainResult, replacement, hcElapsed, healthPolls, hcResult,
              warned, record>>

ssmVars == <<ssmStarted, ssmCalls>>

drainVars == <<dvariant, dtimeout, dpc, delapsed, dstatus, obsRunning, lastPoll,
               gaugesAtReturn>>

engineVars == <<running, waiting, metricsOk, healthy>>

peerVars == <<cloud, cache, stable, pending, writer, lastRead, selfSkipped>>

\* The state of the library parts the node's pipeline does not touch.
placeVars == <<candidates, assigner, selected>>

memVars == <<taskKv, simUsedMb, simAssigned, lastAssign, ec2UsedMb>>

migVars == <<displaced, targets, gracePeriod, optimalPlan, naivePlan, transfer>>

elbVars == <<tgHealth, lastCall, elbOp, elbPc, elbTimeout, elbElapsed, elbSeen,
             elbResult, elbDrain>>

cmdVars == <<cmdStatus, cmdId, wfcPc, wfcElapsed, wfcSeen, wfcResult>>

monVars == <<imds, monPc, monPolls, monYields, checkAnswer, checkResult>>

simVars == <<simPc, simDuration, currentTime, eventQueue, simInstances, simTasks, pendingTasks,
             lastEvent, affected, swept>>

libVars == <<peerVars, placeVars, memVars, migVars, elbVars, cmdVars, monVars, simVars>>

\* The state of the node's pipeline.
coreVars == <<nodeVars, failVars, ssmVars, drainVars, engineVars>>

vars == <<coreVars, libVars>>

\* Instance ids, in the lexicographic order of the id strings; the node
\* itself and its possible peers.
SelfId == 0

PeerIds == 1..MaxPeers

DiscoveryTasks == {"oneshot", "refresher"}

\* A task of discover_peers that holds no result / holds the result it built.
NoResult == [some |-> FALSE, peers |-> {}]

SomeResult(ps) == [some |-> TRUE, peers |-> ps]

\* PeerDiscovery::new: an empty cache; no discovery has run.
PeersIdle ==
    /\ cloud = [i \in PeerIds |-> "running"]
    /\ cache = {}
    /\ stable = {}
    /\ pending = [t \in DiscoveryTasks |-> NoResult]
    /\ writer = None
    /\ lastRead = {}
    /\ selfSkipped = FALSE

\* No call of select has been made.
NotSelected == [done |-> FALSE, idx |-> 0]

PlaceIdle ==
    /\ candidates = <<>>
    /\ assigner = "EarliestNode"
    /\ selected = NotSelected

\* Instance::new and the Ec2Instance constructors: no memory in use.
TaskIds == 1..MaxReq

MemIdle ==
    /\ taskKv = [t \in TaskIds |-> 0]
    /\ simUsedMb = 0
    /\ simAssigned = {}
    /\ lastAssign = None
    /\ ec2UsedMb = 0

\* No planner has been called.
NoPlan == [done |-> FALSE, plan |-> <<>>]

NoTransfer == [done |-> FALSE, err |-> FALSE, plan |-> <<>>, total |-> 0,
               unassigned |-> 0, answer |-> FALSE]

MigIdle ==
    /\ displaced = <<>>
    /\ targets = <<>>
    /\ gracePeriod = 0
    /\ optimalPlan = NoPlan
    /\ naivePlan = NoPlan
    /\ transfer = NoTransfer

\* The last call that marks or registers the node: whether the manager it
\* was made on has an elb_config, whether it returned Ok, whether it repeats
\* a call that returned Ok, and a bit that tells one call from the next.
NoCall == [op |-> None, elb |-> FALSE, ok |-> FALSE, again |-> FALSE, flip |-> FALSE]

Called(op, elb, ok) ==
    [op |-> op, elb |-> elb, ok |-> ok,
     again |-> (lastCall.op = op /\ lastCall.elb = elb /\ lastCall.ok),
     flip |-> ~lastCall.flip]

\* drain_with_elb has not been called.
NoDrainWithElb == [state |-> "idle", status |-> None]

\* No call into the LoadBalancerManager yet; the target is not in the group.
ElbIdle ==
    /\ tgHealth = "Absent"
    /\ lastCall = NoCall
    /\ elbOp = None
    /\ elbPc = "idle"
    /\ elbTimeout = 0
    /\ elbElapsed = 0
    /\ elbSeen = None
    /\ elbResult = None
    /\ elbDrain = NoDrainWithElb

\* What run_command returns: Ok(CommandResult) or Err.
NoCommandResult == [kind |-> None, command_id |-> 0, status |-> None]

\* SsmExecutor::new: nothing sent.
CmdIdle ==
    /\ cmdStatus = None
    /\ cmdId = 0
    /\ wfcPc = "idle"
    /\ wfcElapsed = 0
    /\ wfcSeen = None
    /\ wfcResult = NoCommandResult

\* An answer of the metadata endpoint: the request fails to connect, fails
\* otherwise (timeout), or gets a response with a status and a body.
Answer(send, status, body) == [send |-> send, status |-> status, body |-> body]

NotFound == Answer("ok", 404, "html")

NoAnswer == Answer("none", 0, "none")

\* SpotMonitor::new: no request made; the endpoint has no notice.
MonIdle ==
    /\ imds = NotFound
    /\ monPc = "tick"
    /\ monPolls = 0
    /\ monYields = 0
    /\ checkAnswer = NoAnswer
    /\ checkResult = None

NoEvent == [time |-> 0, kind |-> None, id |-> 0]

SimIdle ==
    /\ simPc = "idle" /\ simDuration = 0
    /\ currentTime = 0 /\ eventQueue = {} /\ simInstances = <<>> /\ simTasks = <<>>
    /\ pendingTasks = <<>> /\ lastEvent = NoEvent /\ affected = {} /\ swept = <<>>

LibIdle == PeersIdle /\ PlaceIdle /\ MemIdle /\ MigIdle /\ ElbIdle /\ CmdIdle /\ MonIdle /\ SimIdle

\* ------------------------------------------------------------ the engine
\* VllmClient::health_check: Ok(2xx), and Ok(false) when the request fails;
\* it never returns Err.
HealthCheck(up) == IF up THEN "OkTrue" ELSE "OkFalse"

\* VllmClient::get_running_requests / get_waiting_requests (agent crate): the
\* gauge when /metrics can be read, and Ok(0) when it cannot.
GetGauge(ok, value) == IF ok THEN value ELSE 0

\* VllmClient::is_idle (agent crate): both getters are infallible, so the
\* result is always Ok.
IsIdle(r, w) == IF r = 0 /\ w = 0 THEN "OkTrue" ELSE "OkFalse"

\* DrainManager::check_inflight_status, orchestrator crate: whatever the
\* health check says, "no in-flight requests".
OrchCheckInflightStatus(h) ==
    CASE h = "OkTrue" -> "OkFalse"
      [] h = "OkFalse" -> "OkFalse"
      [] OTHER -> "OkFalse"

\* DrainManager::check_inflight_status, agent crate.
AgentCheckInflightStatus(idle, h) ==
    CASE idle = "OkTrue" -> "OkFalse"
      [] idle = "OkFalse" -> "OkTrue"
      [] OTHER -> IF h = "OkTrue" THEN "OkTrue" ELSE "OkFalse"

\* The match in wait_for_inflight: Ok(true) keeps waiting, Ok(false) and Err
\* both end the drain with Drained.
InflightVerdict(check) == IF check = "OkTrue" THEN "continue" ELSE "Drained"

NoPoll == [readable |-> TRUE, healthy |-> FALSE, readNonZero |-> FALSE]

NoObs == [ok |-> TRUE, value |-> 0]

\* drain(): set_draining only logs and returns Ok(()); wait_for_inflight starts.
DrainEnter ==
    /\ dpc' = "top"
    /\ delapsed' = 0
    /\ dstatus' = "Draining"
    /\ obsRunning' = NoObs
    /\ lastPoll' = NoPoll
    /\ gaugesAtReturn' = <<0, 0>>
    /\ UNCHANGED <<dvariant, dtimeout>>

DrainReturn(status, poll) ==
    /\ dpc' = "returned"
    /\ dstatus' = status
    /\ lastPoll' = poll
    /\ gaugesAtReturn' = <<running, waiting>>
    /\ UNCHANGED <<dvariant, dtimeout, delapsed, obsRunning>>

DrainSleep(poll) ==
    /\ dpc' = "top"
    /\ delapsed' = delapsed + 1
    /\ lastPoll' = poll
    /\ UNCHANGED <<dvariant, dtimeout, dstatus, obsRunning, gaugesAtReturn>>

\* wait_for_inflight, top of the loop: elapsed >= timeout.
DrainTimeout ==
    /\ pc = "running"
    /\ dpc = "top"
    /\ delapsed >= dtimeout
    /\ DrainReturn("TimedOut", lastPoll)
    /\ UNCHANGED <<nodeVars, failVars, ssmVars, engineVars>>
    /\ UNCHANGED libVars

\* One iteration of the orchestrator crate's wait_for_inflight.
OrchDrainPoll ==
    /\ pc = "running"
    /\ dpc = "top"
    /\ dvariant = "orchestrator"
    /\ delapsed < dtimeout
    /\ LET poll == [readable |-> metricsOk, healthy |-> healthy, readNonZero |-> FALSE]
           verdict == InflightVerdict(OrchCheckInflightStatus(HealthCheck(healthy)))
       IN  IF verdict = "continue" THEN DrainSleep(poll) ELSE DrainReturn(verdict, poll)
    /\ UNCHANGED <<nodeVars, failVars, ssmVars, engineVars>>
    /\ UNCHANGED libVars

\* Agent crate, is_idle: the first GET /metrics, for the running gauge.
AgentFetchRunning ==
    /\ pc = "running"
    /\ dpc = "top"
    /\ dvariant = "agent"
    /\ delapsed < dtimeout
    /\ obsRunning' = [ok |-> metricsOk, value |-> GetGauge(metricsOk, running)]
    /\ dpc' = "fetchWaiting"
    /\ UNCHANGED <<dvariant, dtimeout, delapsed, dstatus, lastPoll, gaugesAtReturn>>
    /\ UNCHANGED <<nodeVars, failVars, ssmVars, engineVars>>
    /\ UNCHANGED libVars

\* Agent crate, is_idle: the second GET /metrics, for the waiting gauge, and
\* the rest of the iteration of wait_for_inflight.
AgentFetchWaiting ==
    /\ pc = "running"
    /\ dpc = "fetchWaiting"
    /\ LET w == GetGauge(metricsOk, waiting)
           poll == [readable |-> obsRunning.ok \/ metricsOk,
                    healthy |-> healthy,
                    readNonZero |-> obsRunning.value > 0 \/ w > 0]
           verdict == InflightVerdict(AgentCheckInflightStatus(
                          IsIdle(obsRunning.value, w), HealthCheck(healthy)))
       IN  IF verdict = "continue" THEN DrainSleep(poll) ELSE DrainReturn(verdict, poll)
    /\ UNCHANGED <<nodeVars, failVars, ssmVars, engineVars>>
    /\ UNCHANGED libVars

\* A caller invokes drain(instance_id, vllm_client).
DrainCall ==
    /\ pc = "running"
    /\ dpc \in {"idle", "returned"}
    /\ DrainEnter
    /\ UNCHANGED <<nodeVars, failVars, ssmVars, engineVars>>
    /\ UNCHANGED libVars

\* The engine: a request arrives, is scheduled, completes.
EngineArrive ==
    /\ running + waiting < MaxReq
    /\ waiting' = waiting + 1
    /\ UNCHANGED <<running, metricsOk, healthy>>
    /\ UNCHANGED <<nodeVars, failVars, ssmVars, drainVars>>
    /\ UNCHANGED libVars

EngineSchedule ==
    /\ waiting > 0
    /\ waiting' = waiting - 1
    /\ running' = running + 1
    /\ UNCHANGED <<metricsOk, healthy>>
    /\ UNCHANGED <<nodeVars, failVars, ssmVars, drainVars>>
    /\ UNCHANGED libVars

EngineComplete ==
    /\ running > 0
    /\ running' = running - 1
    /\ UNCHANGED <<waiting, metricsOk, healthy>>
    /\ UNCHANGED <<nodeVars, failVars, ssmVars, drainVars>>
    /\ UNCHANGED libVars

\* The engine's /metrics and /health endpoints come and go.
EngineEndpoints ==
    /\ \E m \in BOOLEAN, h \in BOOLEAN :
          /\ <<m, h>> # <<metricsOk, healthy>>
          /\ metricsOk' = m
          /\ healthy' = h
    /\ UNCHANGED <<running, waiting>>
    /\ UNCHANGED <<nodeVars, failVars, ssmVars, drainVars>>
    /\ UNCHANGED libVars

\* --------------------------------------------------------- placement
\* Ec2Instance::available_memory_mb and can_fit_memory.
AvailableMemoryMb(c) == c.gpu_memory_gb * 1024 - c.gpu_memory_used_mb

CanFitMemoryStrictly(c, required_mb) == AvailableMemoryMb(c) > required_mb

CanFitMemory(c, required_mb) == AvailableMemoryMb(c) >= required_mb

\* Iterator::min_by_key over candidates kept in list order: of several minimal
\* elements the first is returned.
FirstMinBy(idx, key) ==
    CHOOSE i \in idx : \A j \in idx : key[i] < key[j] \/ (key[i] = key[j] /\ i <= j)

SelectEarliestListed(cands, idx) ==
    {FirstMinBy(idx, [i \in idx |-> 0])}

SelectEarliest(cands, idx) ==
    {FirstMinBy(idx, [i \in idx |-> cands[i].launch_time])}

SelectLeastLoaded(cands, idx) ==
    {FirstMinBy(idx, [i \in idx |-> cands[i].active_requests])}

SelectWarmLeastLoadedCold(cands, idx) ==
    SelectLeastLoaded(cands, idx)

SelectWarmLeastLoaded(cands, idx) ==
    LET warm == {i \in idx : cands[i].has_model}
    IN  IF warm = {} THEN SelectLeastLoaded(cands, idx)
        ELSE SelectLeastLoaded(cands, warm)

\* select_random: an index drawn from a hash of the clock.
SelectRandom(cands, idx) == idx

\* NodeAssigner::select: the indices select can return; {} stands for None.
SelectAny(strat, cands, required_mb) ==
    LET viable == DOMAIN cands
    IN  IF viable = {} THEN {}
        ELSE CASE strat = "EarliestNode" -> SelectEarliest(cands, viable)
               [] strat = "LeastLoaded" -> SelectLeastLoaded(cands, viable)
               [] strat = "WarmLeastLoaded" -> SelectWarmLeastLoaded(cands, viable)
               [] OTHER -> SelectRandom(cands, viable)

Select(strat, cands, required_mb) ==
    LET viable == {i \in DOMAIN cands : CanFitMemory(cands[i], required_mb)}
    IN  IF viable = {} THEN {}
        ELSE CASE strat = "EarliestNode" -> SelectEarliest(cands, viable)
               [] strat = "LeastLoaded" -> SelectLeastLoaded(cands, viable)
               [] strat = "WarmLeastLoaded" -> SelectWarmLeastLoaded(cands, viable)
               [] OTHER -> SelectRandom(cands, viable)

\* ---------------------------------------------------- handle_preemption
\* replacement_instance_id: None.
NoReplacement == 0 - 1

NoRecord == [success |-> FALSE, drain |-> None, replacement |-> NoReplacement,
             error |-> None,
             made |-> FALSE]

\* The current failover has entered phase p.
Entered(p) == \E k \in DOMAIN phases : phases[k] = p

\* handle_preemption is entered: Phase 1 calls drain_manager.drain().
BeginFailover(n) ==
    /\ mpc' = "Drain"
    /\ notice' = n
    /\ inflight' = inflight + 1
    /\ started' = started + 1
    /\ phases' = <<"Drain">>
    /\ drainResult' = None
    /\ replacement' = 0
    /\ hcElapsed' = 0
    /\ healthPolls' = 0
    /\ hcResult' = None
    /\ warned' = FALSE
    /\ record' = NoRecord
    /\ DrainEnter
    /\ UNCHANGED <<peers, strategy, htimeout>>

\* handle_preemption is entered with the candidates cands its caller has
\* just built.
BeginFailoverWith(n, cands) ==
    /\ mpc' = "Drain"
    /\ notice' = n
    /\ inflight' = inflight + 1
    /\ started' = started + 1
    /\ phases' = <<"Drain">>
    /\ drainResult' = None
    /\ replacement' = 0
    /\ hcElapsed' = 0
    /\ healthPolls' = 0
    /\ hcResult' = None
    /\ warned' = FALSE
    /\ record' = NoRecord
    /\ DrainEnter
    /\ peers' = cands
    /\ UNCHANGED <<strategy, htimeout>>

\* The match on drain()'s result: Ok(result) goes on, Err(e) returns the
\* "Drain failed" record. The status inside an Ok result only changes a
\* debug line.
DrainProceedsAborting(res) == res.ok /\ res.status = "Drained"

DrainProceeds(res) == res.ok

FailureRecord(drain, repl, error) ==
    [success |-> FALSE, drain |-> drain, replacement |-> repl, error |-> error,
     made |-> TRUE]

\* Phase 1 ends (and Phase 2, which only logs): drain() has returned.
FailoverDrainDone ==
    /\ pc = "running"
    /\ mpc = "Drain"
    /\ dpc = "returned"
    /\ LET res == [ok |-> TRUE, status |-> dstatus]
       IN  IF DrainProceeds(res)
           THEN /\ drainResult' = res.status
                /\ phases' = phases \o <<"Stop", "Select">>
                /\ mpc' = "Select"
                /\ record' = record
           ELSE /\ drainResult' = "Err"
                /\ phases' = phases
                /\ mpc' = "Done"
                /\ record' = FailureRecord(None, NoReplacement, "Drain failed")
    /\ dpc' = "idle"
    /\ UNCHANGED <<dvariant, dtimeout, delapsed, dstatus, obsRunning, lastPoll,
                   gaugesAtReturn>>
    /\ UNCHANGED <<notice, inflight, started, lastYield, peers, strategy, htimeout,
                   replacement, hcElapsed, healthPolls, hcResult, warned>>
    /\ UNCHANGED <<nodeVars, ssmVars, engineVars>>
    /\ UNCHANGED libVars

\* Phase 3, assigner.select returned None.
FailoverSelectNone ==
    /\ pc = "running"
    /\ mpc = "Select"
    /\ Select(strategy, peers, WorkloadMemoryMb) = {}
    /\ record' = FailureRecord(drainResult, NoReplacement,
                               "No suitable replacement instance available")
    /\ mpc' = "Done"
    /\ UNCHANGED <<notice, inflight, started, lastYield, peers, strategy, htimeout,
                   phases, drainResult, replacement, hcElapsed, healthPolls,
                   hcResult, warned>>
    /\ UNCHANGED <<nodeVars, ssmVars, drainVars, engineVars>>
    /\ UNCHANGED libVars

\* Phase 3, assigner.select returned Some(instance).
FailoverSelectSome ==
    /\ pc = "running"
    /\ mpc = "Select"
    /\ \E i \in Select(strategy, peers, WorkloadMemoryMb) : replacement' = i
    /\ phases' = Append(phases, "Spawn")
    /\ mpc' = "Spawn"
    /\ UNCHANGED <<notice, inflight, started, lastYield, peers, strategy, htimeout,
                   drainResult, hcElapsed, healthPolls, hcResult, warned, record>>
    /\ UNCHANGED <<nodeVars, ssmVars, drainVars, engineVars>>
    /\ UNCHANGED libVars

\* spawn_replacement: builds a VllmContainer value and a client for the
\* instance's address; nothing is sent to the instance. Err only when the
\* instance has neither a public nor a private address.
SpawnReplacement(inst) == IF inst.has_ip THEN "Ok" ELSE "ErrConfig"

\* The match on spawn_result.
SpawnProceedsAlways(res) == TRUE

SpawnProceeds(res) == res = "Ok"

\* Phase 4.
FailoverSpawn ==
    /\ pc = "running"
    /\ mpc = "Spawn"
    /\ LET res == SpawnReplacement(peers[replacement])
       IN  IF SpawnProceeds(res)
           THEN /\ phases' = Append(phases, "HealthCheck")
                /\ mpc' = "HealthCheck"
                /\ record' = record
           ELSE /\ phases' = phases
                /\ mpc' = "Done"
                /\ record' = FailureRecord(drainResult, peers[replacement].id,
                                           "Failed to spawn replacement")
    /\ hcElapsed' = 0
    /\ UNCHANGED <<notice, inflight, started, lastYield, peers, strategy, htimeout,
                   drainResult, replacement, healthPolls, hcResult, warned>>
    /\ UNCHANGED <<nodeVars, ssmVars, drainVars, engineVars>>
    /\ UNCHANGED libVars

\* The record built after Phase 5, whatever wait_for_healthy returned.
HealthRecord(hc, drain, repl) ==
    [success |-> TRUE, drain |-> drain, replacement |-> repl, error |-> None,
     made |-> TRUE]

\* Phase 5, wait_for_healthy: elapsed >= timeout, Err(Timeout); the caller
\* logs a warning and builds the record.
FailoverHealthTimeout ==
    /\ pc = "running"
    /\ mpc = "HealthCheck"
    /\ hcElapsed >= htimeout
    /\ hcResult' = "ErrTimeout"
    /\ warned' = TRUE
    /\ record' = HealthRecord("ErrTimeout", drainResult, peers[replacement].id)
    /\ mpc' = "Done"
    /\ UNCHANGED <<notice, inflight, started, lastYield, peers, strategy, htimeout,
                   phases, drainResult, replacement, hcElapsed, healthPolls>>
    /\ UNCHANGED <<nodeVars, ssmVars, drainVars, engineVars>>
    /\ UNCHANGED libVars

\* Phase 5, wait_for_healthy: one health poll of the replacement, then
\* either Ok(()) or a sleep.
FailoverHealthPoll ==
    /\ pc = "running"
    /\ mpc = "HealthCheck"
    /\ hcElapsed < htimeout
    /\ healthPolls' = healthPolls + 1
    /\ \E up \in BOOLEAN :
          IF HealthCheck(up) = "OkTrue"
          THEN /\ hcResult' = "Ok"
               /\ record' = HealthRecord("Ok", drainResult, peers[replacement].id)
               /\ mpc' = "Done"
               /\ hcElapsed' = hcElapsed
          ELSE /\ hcElapsed' = hcElapsed + 1
               /\ UNCHANGED <<hcResult, record, mpc>>
    /\ UNCHANGED <<notice, inflight, started, lastYield, peers, strategy, htimeout,
                   phases, drainResult, replacement, warned>>
    /\ UNCHANGED <<nodeVars, ssmVars, drainVars, engineVars>>
    /\ UNCHANGED libVars

\* handle_preemption returns its FailoverResult to the caller.
FailoverReturn ==
    /\ pc = "running"
    /\ mpc = "Done"
    /\ mpc' = "next"
    /\ inflight' = inflight - 1
    /\ UNCHANGED <<notice, started, lastYield, peers, strategy, htimeout, phases,
                   drainResult, replacement, hcElapsed, healthPolls, hcResult,
                   warned, record>>
    /\ UNCHANGED <<nodeVars, ssmVars, drainVars, engineVars>>
    /\ UNCHANGED libVars

\* SsmExecutor::start_vllm_container -> run_command: what the command channel
\* does with the container-start script. send_command failing is the one
\* outcome in which nothing was dispatched.
SsmOutcomes == {"SendErr", "Success", "Failed", "Cancelled", "TimedOut"}

SsmDispatched(out) == out # "SendErr"

\* A caller of the library invokes spawn_replacement_with_ssm on a candidate:
\* the container-start command goes out through the SsmExecutor.
SpawnWithSsm ==
    /\ pc = "running"
    /\ mpc = "next"
    /\ ssmCalls < MaxSsmCalls
    /\ \E i \in DOMAIN peers, out \in SsmOutcomes :
          ssmStarted' = IF SsmDispatched(out) THEN ssmStarted \cup {i} ELSE ssmStarted
    /\ ssmCalls' = ssmCalls + 1
    /\ UNCHANGED <<nodeVars, failVars, drainVars, engineVars>>
    /\ UNCHANGED libVars

\* The notices a caller hands to handle_preemption, which only logs
\* seconds_until_action.
CallNotices == {n \in Notices : n.seconds_until_action = GRACE_PERIOD_SECONDS}

\* A caller of the library invokes handle_preemption with a notice.
FailoverCall ==
    /\ pc = "running"
    /\ mpc = "next"
    /\ started < MaxFailovers
    /\ \E n \in CallNotices : BeginFailover(n)
    /\ UNCHANGED lastYield
    /\ UNCHANGED <<nodeVars, ssmVars, engineVars>>
    /\ UNCHANGED libVars

\* The failover and node state of a process in which no failover has run.
FailoverIdle ==
    /\ mpc = "next"
    /\ notice = NoNotice
    /\ inflight = 0
    /\ started = 0
    /\ lastYield = None
    /\ phases = <<>>
    /\ drainResult = None
    /\ replacement = 0
    /\ hcElapsed = 0
    /\ healthPolls = 0
    /\ hcResult = None
    /\ warned = FALSE
    /\ record = NoRecord
    /\ ssmStarted = {}
    /\ ssmCalls = 0

DrainIdle ==
    /\ dpc = "idle"
    /\ delapsed = 0
    /\ dstatus = "Draining"
    /\ obsRunning = NoObs
    /\ lastPoll = NoPoll
    /\ gaugesAtReturn = <<0, 0>>

\* ------------------------------------------------------------- SpecDrain
\* A process that owns a DrainManager of either crate, built with any
\* drain_timeout, next to an engine that serves requests.
InitDrain ==
    /\ pc = "running" /\ guard = FALSE /\ exitKind = None /\ terminateCalls = <<>>
    /\ endpoint = NoNotice
    /\ FailoverIdle
    /\ peers = <<>> /\ strategy = "EarliestNode" /\ htimeout = 0
    /\ DrainIdle
    /\ dvariant \in {"orchestrator", "agent"}
    /\ dtimeout \in 0..MaxDrainTicks
    /\ running = 0 /\ waiting = 0 /\ metricsOk = TRUE /\ healthy = TRUE
    /\ LibIdle

NextDrain ==
    \/ DrainCall
    \/ DrainTimeout
    \/ OrchDrainPoll
    \/ AgentFetchRunning
    \/ AgentFetchWaiting
    \/ EngineArrive
    \/ EngineSchedule
    \/ EngineComplete
    \/ EngineEndpoints

SpecDrain == InitDrain /\ [][NextDrain]_vars

\* ----------------------------------------------------------- SpecFailover
\* Candidates as they come from the peer snapshot through
\* AssignmentCandidate::new: each with its own id, too small for the workload
\* or large enough, and then with or without an address; later peers were
\* launched earlier.
CandidateAt(i) ==
    {c \in [id : {i}, gpu_memory_gb : {4, 24}, gpu_memory_used_mb : {0},
            has_ip : BOOLEAN, launch_time : {MaxPeers + 1 - i},
            active_requests : {0}, has_model : {FALSE}] :
        c.gpu_memory_gb = 4 => c.has_ip}

CandidateLists ==
    UNION {{c \in [1..n -> UNION {CandidateAt(i) : i \in 1..n}] :
              \A i \in 1..n : c[i] \in CandidateAt(i)} : n \in 0..MaxPeers}

\* A process that owns a FailoverManager built with any configuration.
InitFailover ==
    /\ pc = "running" /\ guard = FALSE /\ exitKind = None /\ terminateCalls = <<>>
    /\ endpoint = NoNotice
    /\ FailoverIdle
    /\ peers \in CandidateLists
    /\ strategy \in Strategies
    /\ htimeout \in 0..MaxHealthTicks
    /\ DrainIdle
    /\ dvariant = "orchestrator"
    /\ dtimeout \in 0..MaxDrainTicks
    /\ running = 0 /\ waiting = 0 /\ metricsOk = TRUE /\ healthy = TRUE
    /\ LibIdle

NextFailover ==
    \/ FailoverCall
    \/ DrainTimeout
    \/ OrchDrainPoll
    \/ FailoverDrainDone
    \/ FailoverSelectNone
    \/ FailoverSelectSome
    \/ FailoverSpawn
    \/ FailoverHealthTimeout
    \/ FailoverHealthPoll
    \/ FailoverReturn
    \/ SpawnWithSsm

SpecFailover == InitFailover /\ [][NextFailover]_vars

\* ------------------------------------------------------ run_orchestrator
\* SelfTerminatingGuard::terminate runs `aws ec2 terminate-instances` for
\* its own instance id and only logs the outcome: the command succeeded, it
\* exited with an error, or it could not be run.
TerminateOutcomes == {"Initiated", "Refused", "NotRun"}

\* Drop for SelfTerminatingGuard: it logs one line or another depending on
\* std::thread::panicking() and calls terminate() in both cases.
DropTerminatesUnlessPanicking(panicking) == ~panicking

DropTerminates(panicking) == TRUE

\* run_orchestrator's frame is left (return, `?`, unwinding): its locals are
\* dropped, the guard among them when it was created.
ExitWith(kind) ==
    /\ pc' = "exited"
    /\ exitKind' = kind
    /\ IF guard /\ DropTerminates(kind = "panic")
       THEN \E out \in TerminateOutcomes :
               terminateCalls' = Append(terminateCalls, out)
       ELSE terminateCalls' = terminateCalls
    /\ UNCHANGED <<guard, endpoint>>

\* get_current_instance_id: Ok creates the guard, Err bails before it exists.
GetCurrentInstanceId ==
    /\ pc = "boot"
    /\ \/ /\ guard' = TRUE
          /\ pc' = "setup"
          /\ UNCHANGED <<exitKind, terminateCalls, endpoint>>
       \/ /\ pc' = "exited"
          /\ exitKind' = "error"
          /\ UNCHANGED <<guard, terminateCalls, endpoint>>
    /\ UNCHANGED <<failVars, ssmVars, drainVars, engineVars>>
    /\ UNCHANGED libVars

\* terraform init/apply, create_owner_marker, parse_outputs: each `?`.
\* Tagging and the initial discovery only log their errors.
EnsureInfra ==
    /\ pc = "setup"
    /\ \/ /\ pc' = "start_vllm"
          /\ UNCHANGED <<guard, exitKind, terminateCalls, endpoint>>
       \/ ExitWith("error")
    /\ UNCHANGED <<failVars, ssmVars, drainVars, engineVars>>
    /\ UNCHANGED libVars

\* vllm.start().await?, the readiness wait, tokio::spawn of the monitor task.
StartVllm ==
    /\ pc = "start_vllm"
    /\ \/ /\ pc' = "running"
          /\ UNCHANGED <<guard, exitKind, terminateCalls, endpoint>>
       \/ ExitWith("error")
    /\ UNCHANGED <<failVars, ssmVars, drainVars, engineVars>>
    /\ UNCHANGED libVars

\* select!: ctrl_c fires; monitor_task.abort() cancels the monitor task and
\* the handle_preemption it may be awaiting.
CtrlC ==
    /\ pc = "running"
    /\ pc' = "stopping"
    /\ mpc' = "aborted"
    /\ inflight' = 0
    /\ UNCHANGED <<guard, exitKind, terminateCalls, endpoint>>
    /\ UNCHANGED <<notice, started, lastYield, peers, strategy, htimeout, phases,
                   drainResult, replacement, hcElapsed, healthPolls, hcResult,
                   warned, record>>
    /\ UNCHANGED <<ssmVars, drainVars, engineVars>>
    /\ UNCHANGED libVars

\* The monitor task panics; tokio keeps the panic in its JoinHandle.
MonitorPanic ==
    /\ pc = "running"
    /\ mpc # "panicked"
    /\ mpc' = "panicked"
    /\ inflight' = 0
    /\ UNCHANGED <<notice, started, lastYield, peers, strategy, htimeout, phases,
                   drainResult, replacement, hcElapsed, healthPolls, hcResult,
                   warned, record>>
    /\ UNCHANGED <<nodeVars, ssmVars, drainVars, engineVars>>
    /\ UNCHANGED libVars

\* select!: the monitor task's JoinHandle resolves (the stream never ends, so
\* only with a JoinError).
MonitorEnded ==
    /\ pc = "running"
    /\ mpc = "panicked"
    /\ pc' = "stopping"
    /\ UNCHANGED <<guard, exitKind, terminateCalls, endpoint>>
    /\ UNCHANGED <<failVars, ssmVars, drainVars, engineVars>>
    /\ UNCHANGED libVars

\* Either branch of select!: untag (errors logged), vllm.stop().await?, Ok(()).
VllmStop ==
    /\ pc = "stopping"
    /\ \/ ExitWith("normal")
       \/ ExitWith("error")
    /\ UNCHANGED <<failVars, ssmVars, drainVars, engineVars>>
    /\ UNCHANGED libVars

\* run_orchestrator's own task panics after the guard exists.
Panic ==
    /\ pc \in {"setup", "start_vllm", "running", "stopping"}
    /\ ExitWith("panic")
    /\ UNCHANGED <<failVars, ssmVars, drainVars, engineVars>>
    /\ UNCHANGED libVars

\* The provider posts or changes the notice on the metadata endpoint.
ProviderNotice ==
    /\ pc = "running"
    /\ \E n \in Notices : n # endpoint /\ endpoint' = n
    /\ UNCHANGED <<pc, guard, exitKind, terminateCalls>>
    /\ UNCHANGED <<failVars, ssmVars, drainVars, engineVars>>
    /\ UNCHANGED libVars

\* monitor_stream is an async_stream: it polls the endpoint only while the
\* consumer awaits stream.next(), at the top of the monitor loop.
StreamPolledAlways(m) == TRUE

StreamPolled(m) == m = "next"

\* The match in the monitor loop: only SpotAction::Terminate, and then only
\* within the grace period, reaches handle_preemption.
ActsOnAnyAction(n) == n.seconds_until_action <= GRACE_PERIOD_SECONDS

ActsOn(n) == n.action = "Terminate" /\ n.seconds_until_action <= GRACE_PERIOD_SECONDS

\* A tick answered 200 with a notice the loop acts on; get_current_instance_info
\* succeeds and handle_preemption is called with the peer snapshot.
MonitorPollStart ==
    /\ pc = "running"
    /\ StreamPolled(mpc)
    /\ endpoint # NoNotice
    /\ ActsOn(endpoint)
    /\ started < MaxFailovers
    /\ lastYield' = endpoint.action
    /\ BeginFailover(endpoint)
    /\ UNCHANGED <<nodeVars, ssmVars, engineVars>>
    /\ UNCHANGED libVars

\* The same tick, handle_preemption called with the candidates cands built
\* from the snapshot read at that moment.
MonitorPollStartWith(cands) ==
    /\ pc = "running"
    /\ StreamPolled(mpc)
    /\ endpoint # NoNotice
    /\ ActsOn(endpoint)
    /\ started < MaxFailovers
    /\ lastYield' = endpoint.action
    /\ BeginFailoverWith(endpoint, cands)
    /\ UNCHANGED <<nodeVars, ssmVars, engineVars>>
    /\ UNCHANGED libVars

\* A tick answered 200 with a notice the loop does not act on: another
\* action, beyond the grace period, or get_current_instance_info failed.
MonitorPollSkip ==
    /\ pc = "running"
    /\ StreamPolled(mpc)
    /\ endpoint # NoNotice
    /\ lastYield' = endpoint.action
    /\ UNCHANGED <<mpc, notice, inflight, started, peers, strategy, htimeout,
                   phases, drainResult, replacement, hcElapsed, healthPolls,
                   hcResult, warned, record>>
    /\ UNCHANGED <<nodeVars, ssmVars, drainVars, engineVars>>
    /\ UNCHANGED libVars

\* ------------------------------------------------------------------- Spec
\* run_orchestrator as main.rs configures it: WarmLeastLoaded, a drain
\* budget of 115 s and a health budget of 120 s (both some ticks, not zero),
\* the orchestrator crate's DrainManager.
Init ==
    /\ pc = "boot" /\ guard = FALSE /\ exitKind = None /\ terminateCalls = <<>>
    /\ endpoint = NoNotice
    /\ FailoverIdle
    /\ peers \in CandidateLists
    /\ strategy = "WarmLeastLoaded"
    /\ htimeout \in 1..MaxHealthTicks
    /\ DrainIdle
    /\ dvariant = "orchestrator"
    /\ dtimeout \in 1..MaxDrainTicks
    /\ running = 0 /\ waiting = 0 /\ metricsOk = TRUE /\ healthy = TRUE
    /\ LibIdle

\* With a budget that is not zero the orchestrator crate's wait_for_inflight
\* returns from its first iteration, so DrainTimeout is no step of Spec.
Next ==
    \/ GetCurrentInstanceId
    \/ EnsureInfra
    \/ StartVllm
    \/ CtrlC
    \/ MonitorPanic
    \/ MonitorEnded
    \/ VllmStop
    \/ Panic
    \/ ProviderNotice
    \/ MonitorPollStart
    \/ MonitorPollSkip
    \/ OrchDrainPoll
    \/ FailoverDrainDone
    \/ FailoverSelectNone
    \/ FailoverSelectSome
    \/ FailoverSpawn
    \/ FailoverHealthTimeout
    \/ FailoverHealthPoll
    \/ FailoverReturn

Spec == Init /\ [][Next]_vars

\* The steps the node takes on its own: everything but the operator's
\* Ctrl+C, panics and the provider's notices.
NodeStep ==
    \/ GetCurrentInstanceId
    \/ EnsureInfra
    \/ StartVllm
    \/ MonitorEnded
    \/ VllmStop
    \/ MonitorPollStart
    \/ MonitorPollSkip
    \/ OrchDrainPoll
    \/ FailoverDrainDone
    \/ FailoverSelectNone
    \/ FailoverSelectSome
    \/ FailoverSpawn
    \/ FailoverHealthTimeout
    \/ FailoverHealthPoll
    \/ FailoverReturn

\* The runtime runs every task that can run: a step the node can take is
\* taken.
SpecLive == Spec /\ WF_vars(NodeStep)

\* -------------------------------------------------------- PeerDiscovery
\* DiscoveryConfig::new: self_instance_id is None.
UnconfiguredSelfId == {}

\* run_orchestrator builds its DiscoveryConfig with_self_instance_id(the id
\* the metadata service returned). The Option is a set of at most one id.
ConfiguredSelfId == {SelfId}

\* discover_peers, "Skip self": only when a self id is configured.
SkipSelfNever(self_id, instance_id) == FALSE

SkipSelf(self_id, instance_id) == instance_id \in self_id

\* discover_peers, the loop over the response: the peers it collects.
DiscoverResult(listed, self_id) == {i \in listed : ~SkipSelf(self_id, i)}

\* discover_peers up to "Update cache": describe_instances answers with the
\* tagged instances in state running (the node itself among them when its
\* tag is in place) and the result is built. When describe_instances fails
\* the call returns Err and nothing changes.
DiscoverQuery(t) ==
    /\ ~pending[t].some
    /\ \E selfListed \in BOOLEAN :
          LET listed == {i \in PeerIds : cloud[i] = "running"}
                            \cup (IF selfListed THEN {SelfId} ELSE {})
          IN  /\ pending' = [pending EXCEPT
                                ![t] = SomeResult(DiscoverResult(listed, ConfiguredSelfId))]
              /\ selfSkipped' = (selfSkipped
                                    \/ (selfListed /\ SelfId \notin pending'[t].peers))
    /\ UNCHANGED <<cloud, cache, stable, writer, lastRead>>
    /\ UNCHANGED <<coreVars, placeVars, memVars, migVars, elbVars, cmdVars, monVars, simVars>>

\* self.peers.write().await: the lock is granted when nobody holds it; the
\* assignment `*cache = ...` is under way and the Vec is neither the old nor
\* the new one for certain.
CacheLockWrite(t) ==
    /\ pending[t].some
    /\ writer = None
    /\ writer' = t
    /\ cache' \in SUBSET (cache \cup pending[t].peers)
    /\ UNCHANGED <<cloud, stable, pending, lastRead, selfSkipped>>
    /\ UNCHANGED <<coreVars, placeVars, memVars, migVars, elbVars, cmdVars, monVars, simVars>>

\* The assignment is complete and the write guard is dropped; discover_peers
\* returns Ok(peers).
CacheStore(t) ==
    /\ writer = t
    /\ cache' = pending[t].peers
    /\ stable' = pending[t].peers
    /\ pending' = [pending EXCEPT ![t] = NoResult]
    /\ writer' = None
    /\ UNCHANGED <<cloud, lastRead, selfSkipped>>
    /\ UNCHANGED <<coreVars, placeVars, memVars, migVars, elbVars, cmdVars, monVars, simVars>>

\* RwLock: read() is granted only while no write guard is held.
ReadAllowedAlways(w) == TRUE

ReadAllowed(w) == w = None

\* get_peers: self.peers.read().await.clone().
GetPeers ==
    /\ ReadAllowed(writer)
    /\ lastRead' = cache
    /\ UNCHANGED <<cloud, cache, stable, pending, writer, selfSkipped>>
    /\ UNCHANGED <<coreVars, placeVars, memVars, migVars, elbVars, cmdVars, monVars, simVars>>

\* The provider moves a peer along its lifecycle.
CloudAdvance ==
    /\ \E i \in PeerIds :
          /\ cloud[i] # "terminated"
          /\ cloud' = [cloud EXCEPT ![i] = IF cloud[i] = "pending" THEN "running"
                                           ELSE "terminated"]
    /\ UNCHANGED <<cache, stable, pending, writer, lastRead, selfSkipped>>
    /\ UNCHANGED <<coreVars, placeVars, memVars, migVars, elbVars, cmdVars, monVars, simVars>>

\* The refresher loop of start_refresh_task and one-shot callers.
DiscoverOneShotQuery == DiscoverQuery("oneshot")

DiscoverOneShotLock == CacheLockWrite("oneshot")

DiscoverOneShotStore == CacheStore("oneshot")

RefresherQuery == DiscoverQuery("refresher")

RefresherLock == CacheLockWrite("refresher")

RefresherStore == CacheStore("refresher")

\* A process that owns a PeerDiscovery configured as run_orchestrator does,
\* in a fleet whose peers are yet to come up.
InitPeers ==
    /\ pc = "running" /\ guard = FALSE /\ exitKind = None /\ terminateCalls = <<>>
    /\ endpoint = NoNotice
    /\ FailoverIdle
    /\ peers = <<>> /\ strategy = "EarliestNode" /\ htimeout = 0
    /\ DrainIdle
    /\ dvariant = "orchestrator" /\ dtimeout = 0
    /\ running = 0 /\ waiting = 0 /\ metricsOk = TRUE /\ healthy = TRUE
    /\ cloud \in [PeerIds -> {"pending", "running"}]
    /\ cache = {}
    /\ stable = {}
    /\ pending = [t \in DiscoveryTasks |-> NoResult]
    /\ writer = None
    /\ lastRead = {}
    /\ selfSkipped = FALSE
    /\ PlaceIdle
    /\ MemIdle
    /\ MigIdle
    /\ ElbIdle
    /\ CmdIdle
    /\ MonIdle
    /\ SimIdle

NextPeers ==
    \/ DiscoverOneShotQuery
    \/ DiscoverOneShotLock
    \/ DiscoverOneShotStore
    \/ RefresherQuery
    \/ RefresherLock
    \/ RefresherStore
    \/ GetPeers
    \/ CloudAdvance

SpecPeers == InitPeers /\ [][NextPeers]_vars

\* ---------------------------------------------------------- NodeAssigner
\* The candidates a caller can hand to select: Ec2Instance values with
\* distinct ids, listed by ascending or by descending id, 8 GB of accelerator memory of which the
\* workload's requirement is exactly free or 1 MB short, and the
\* AssignmentCandidate fields set with the builder methods.
SelectCandidate(i) ==
    [id : {i}, gpu_memory_gb : {8},
     gpu_memory_used_mb : {8 * 1024 - WorkloadMemoryMb, 8 * 1024 - WorkloadMemoryMb + 1},
     has_ip : {TRUE}, launch_time : 1..2, active_requests : 0..1,
     has_model : BOOLEAN, state : {"Running", "Terminated"}]

SelectInputs ==
    UNION {{c \in [1..n -> UNION {SelectCandidate(i) : i \in 1..n}] :
              \/ \A j \in 1..n : c[j].id = j
              \/ \A j \in 1..n : c[j].id = n + 1 - j} : n \in 0..MaxPeers}

\* NodeAssigner::select is called with the workload of run_orchestrator.
ApplySelect ==
    /\ ~selected.done
    /\ LET res == Select(assigner, candidates, WorkloadMemoryMb)
       IN  IF res = {} THEN selected' = [done |-> TRUE, idx |-> 0]
           ELSE \E i \in res : selected' = [done |-> TRUE, idx |-> i]
    /\ UNCHANGED <<candidates, assigner>>
    /\ UNCHANGED <<coreVars, peerVars, memVars, migVars, elbVars, cmdVars, monVars, simVars>>

\* A NodeAssigner of any strategy and any candidate slice.
InitSelect ==
    /\ pc = "running" /\ guard = FALSE /\ exitKind = None /\ terminateCalls = <<>>
    /\ endpoint = NoNotice
    /\ FailoverIdle
    /\ peers = <<>> /\ strategy = "EarliestNode" /\ htimeout = 0
    /\ DrainIdle
    /\ dvariant = "orchestrator" /\ dtimeout = 0
    /\ running = 0 /\ waiting = 0 /\ metricsOk = TRUE /\ healthy = TRUE
    /\ PeersIdle
    /\ candidates \in SelectInputs
    /\ assigner \in Strategies
    /\ selected = NotSelected
    /\ MemIdle
    /\ MigIdle
    /\ ElbIdle
    /\ CmdIdle
    /\ MonIdle
    /\ SimIdle

NextSelect == ApplySelect

SpecSelect == InitSelect /\ [][NextSelect]_vars

\* --------------------------------------------- accelerator memory in use
\* Simulator Instance::new: every instance has 24 GB, counted as 1000 MB each.
SimGpuMemoryGb == 24

SimTotalMb == SimGpuMemoryGb * 1000

\* Instance::available_memory_mb (simulator).
SimAvailableMemoryMb(used) == SimTotalMb - used

\* Task::can_fit_in_memory.
CanFitInMemory(kv, available) == kv <= available

\* kv_cache_size_mb of a task: Task::new gives at most 8000, and the field
\* is public (the tests set 30000).
KvSizes == {8000, 16000, 30000}

\* Instance::assign_task.
AssignTask ==
    /\ \E t \in TaskIds \ simAssigned :
          IF CanFitInMemory(taskKv[t], SimAvailableMemoryMb(simUsedMb))
          THEN /\ simUsedMb' = simUsedMb + taskKv[t]
               /\ simAssigned' = simAssigned \cup {t}
               /\ lastAssign' = "true"
          ELSE /\ lastAssign' = "false"
               /\ UNCHANGED <<simUsedMb, simAssigned>>
    /\ UNCHANGED <<taskKv, ec2UsedMb>>
    /\ UNCHANGED <<coreVars, peerVars, placeVars, migVars, elbVars, cmdVars, monVars, simVars>>

\* Instance::release_task: subtract, then clamp at zero.
ReleaseTask ==
    /\ \E t \in simAssigned :
          /\ simUsedMb' = IF simUsedMb - taskKv[t] < 0 THEN 0 ELSE simUsedMb - taskKv[t]
          /\ simAssigned' = simAssigned \ {t}
    /\ UNCHANGED <<taskKv, lastAssign, ec2UsedMb>>
    /\ UNCHANGED <<coreVars, peerVars, placeVars, migVars, elbVars, cmdVars, monVars, simVars>>

\* The Ec2Instance of the orchestrator crate, with 8 GB counted as 1024 MB
\* each, and the values a caller can hand to with_memory_used.
Ec2TotalMb == AvailableMemoryMb([gpu_memory_gb |-> 8, gpu_memory_used_mb |-> 0])

MemoryUpdates == {0, Ec2TotalMb - 1, Ec2TotalMb, Ec2TotalMb + 1}

\* Ec2Instance::with_memory_used: the field is set to the argument.
WithMemoryUsed ==
    /\ \E used_mb \in MemoryUpdates : used_mb # ec2UsedMb /\ ec2UsedMb' = used_mb
    /\ UNCHANGED <<taskKv, simUsedMb, simAssigned, lastAssign>>
    /\ UNCHANGED <<coreVars, peerVars, placeVars, migVars, elbVars, cmdVars, monVars, simVars>>

\* One simulator instance with tasks of any size, and one Ec2Instance.
InitMemory ==
    /\ pc = "running" /\ guard = FALSE /\ exitKind = None /\ terminateCalls = <<>>
    /\ endpoint = NoNotice
    /\ FailoverIdle
    /\ peers = <<>> /\ strategy = "EarliestNode" /\ htimeout = 0
    /\ DrainIdle
    /\ dvariant = "orchestrator" /\ dtimeout = 0
    /\ running = 0 /\ waiting = 0 /\ metricsOk = TRUE /\ healthy = TRUE
    /\ PeersIdle
    /\ PlaceIdle
    /\ taskKv \in [TaskIds -> KvSizes]
    /\ simUsedMb = 0
    /\ simAssigned = {}
    /\ lastAssign = None
    /\ ec2UsedMb = 0
    /\ MigIdle
    /\ ElbIdle
    /\ CmdIdle
    /\ MonIdle
    /\ SimIdle

NextMemory ==
    \/ AssignTask
    \/ ReleaseTask
    \/ WithMemoryUsed

SpecMemory == InitMemory /\ [][NextMemory]_vars

\* ------------------------------------------------------- MigrationPlanner

\* f64::INFINITY, the cost of a pair that does not fit: above every finite
\* cost.
Infinity == 2000000000

\* The integer both planners put in the matrix for an infinite cost.
InfeasibleCost == 1000000000

\* kv_cache_size_mb / (network_bandwidth_gbps * 125.0), kept in milliseconds.
\* The sizes and bandwidths of the model make the quotient exact, so that
\* (cost * 1000.0) as i64 is this same number.
TransferTimeMs(kv, gbps) == (kv * 1000) \div (gbps * 125)

\* MigrationPlanner::migration_cost of the simulator: the instance's free
\* memory counts 1000 MB to the GB.
SimMigrationCost(kv, instance) ==
    IF ~CanFitInMemory(kv, SimAvailableMemoryMb(instance.gpu_memory_used_mb))
    THEN Infinity
    ELSE TransferTimeMs(kv, instance.network_bandwidth_gbps)

\* MigrationTarget::from_instance (orchestrator).
FromInstance(instance) ==
    [available_memory_mb |-> AvailableMemoryMb(instance),
     network_bandwidth_gbps |-> instance.network_bandwidth_gbps]

\* MigrationPlanner::migration_cost of the orchestrator.
MigrationCost(kv, target) ==
    IF ~CanFitInMemory(kv, target.available_memory_mb)
    THEN Infinity
    ELSE TransferTimeMs(kv, target.network_bandwidth_gbps)

\* build_cost_matrix of the simulator.
SimBuildCostMatrix(tasks, insts) ==
    [i \in 1..Len(tasks) |->
        [j \in 1..Len(insts) |-> SimMigrationCost(tasks[i], insts[j])]]

\* build_cost_matrix of the orchestrator.
BuildCostMatrix(tasks, mtargets) ==
    [i \in 1..Len(tasks) |->
        [j \in 1..Len(mtargets) |-> MigrationCost(tasks[i], mtargets[j])]]

MatrixSize(num_tasks, num_targets) ==
    IF num_tasks >= num_targets THEN num_tasks ELSE num_targets

\* square_matrix and int_costs: the cost matrix padded to a square with
\* infinite costs, every infinite cost replaced by 1_000_000_000.
IntCosts(cost_matrix, num_tasks, num_targets) ==
    LET size == MatrixSize(num_tasks, num_targets)
    IN  [i \in 1..size |-> [j \in 1..size |->
            IF i <= num_tasks /\ j <= num_targets /\ cost_matrix[i][j] # Infinity
            THEN cost_matrix[i][j]
            ELSE InfeasibleCost]]

RECURSIVE SumTo(_, _)
SumTo(f, k) == IF k = 0 THEN 0 ELSE f[k] + SumTo(f, k - 1)

\* The weight of a perfect matching, as the number of 1_000_000_000 cells it
\* uses and the sum of its other cells: the finite costs of a matrix add up
\* to less than 1_000_000_000, so comparing these pairs in this order is
\* comparing the i64 sums.
MatchingWeight(matrix, size, a) ==
    <<Cardinality({i \in 1..size : matrix[i][a[i]] = InfeasibleCost}),
      SumTo([i \in 1..size |->
                IF matrix[i][a[i]] = InfeasibleCost THEN 0 ELSE matrix[i][a[i]]],
            size)>>

Heavier(v, w) == v[1] > w[1] \/ (v[1] = w[1] /\ v[2] > w[2])

PerfectMatchings(size) ==
    {a \in [1..size -> 1..size] : \A i, j \in 1..size : i # j => a[i] # a[j]}

\* pathfinding::kuhn_munkres::kuhn_munkres: a perfect matching of MAXIMUM
\* total weight (the minimising variant of the crate is kuhn_munkres_min,
\* which neither planner calls); which of several maxima is returned is not
\* fixed here.
KuhnMunkres(matrix, size) ==
    {a \in PerfectMatchings(size) :
        \A b \in PerfectMatchings(size) :
            ~Heavier(MatchingWeight(matrix, size, b), MatchingWeight(matrix, size, a))}

\* The pairs both planners keep of a matching: a real target and a finite
\* cost; 0 stands for a task left out of the map.
ValidAssignments(cost_matrix, num_tasks, num_targets, a) ==
    [i \in 1..num_tasks |->
        IF a[i] <= num_targets /\ cost_matrix[i][a[i]] < Infinity THEN a[i] ELSE 0]

\* The plans plan_optimal_migration can return for a non-empty input.
OptimalPlans(cost_matrix, num_tasks, num_targets) ==
    {ValidAssignments(cost_matrix, num_tasks, num_targets, a) :
        a \in KuhnMunkres(IntCosts(cost_matrix, num_tasks, num_targets),
                          MatrixSize(num_tasks, num_targets))}

Unassigned(tasks) == [i \in 1..Len(tasks) |-> 0]

\* plan_optimal_migration of the simulator.
PlanOptimalMigration ==
    /\ ~optimalPlan.done
    /\ IF displaced = <<>> \/ targets = <<>>
       THEN optimalPlan' = [done |-> TRUE, plan |-> Unassigned(displaced)]
       ELSE \E p \in OptimalPlans(SimBuildCostMatrix(displaced, targets),
                                  Len(displaced), Len(targets)) :
               optimalPlan' = [done |-> TRUE, plan |-> p]
    /\ UNCHANGED <<displaced, targets, gracePeriod, naivePlan, transfer>>
    /\ UNCHANGED <<coreVars, peerVars, placeVars, memVars, elbVars, cmdVars, monVars, simVars>>

\* The loop of plan_naive_migration from task i on: the first instance in
\* slice order whose tracked free memory (1024 MB to the GB) holds the task.
RECURSIVE FirstFitFrom(_, _, _, _)
FirstFitFrom(tasks, insts, i, used) ==
    IF i > Len(tasks) THEN <<>>
    ELSE LET fits == {j \in 1..Len(insts) :
                        CanFitInMemory(tasks[i], insts[j].gpu_memory_gb * 1024 - used[j])}
             first == IF fits = {} THEN 0
                      ELSE CHOOSE j \in fits : \A k \in fits : j <= k
             after == IF first = 0 THEN used
                      ELSE [used EXCEPT ![first] = @ + tasks[i]]
         IN  <<first>> \o FirstFitFrom(tasks, insts, i + 1, after)

\* plan_naive_migration.
PlanNaiveMigration ==
    /\ ~naivePlan.done
    /\ naivePlan' =
          [done |-> TRUE,
           plan |-> IF displaced = <<>> \/ targets = <<>>
                    THEN Unassigned(displaced)
                    ELSE FirstFitFrom(displaced, targets, 1,
                            [j \in 1..Len(targets) |-> targets[j].gpu_memory_used_mb])]
    /\ UNCHANGED <<displaced, targets, gracePeriod, optimalPlan, transfer>>
    /\ UNCHANGED <<coreVars, peerVars, placeVars, memVars, elbVars, cmdVars, monVars, simVars>>

\* calculate_total_cost: the finite costs of the plan's pairs, added up.
CalculateTotalCost(tasks, insts, plan) ==
    SumTo([i \in 1..Len(tasks) |->
              IF plan[i] # 0 /\ SimMigrationCost(tasks[i], insts[plan[i]]) # Infinity
              THEN SimMigrationCost(tasks[i], insts[plan[i]])
              ELSE 0],
          Len(tasks))

\* plan_optimal_migration of the orchestrator: the plan with its
\* total_time_seconds (here in milliseconds) and unassigned_count.
MigrationPlans(tasks, mtargets) ==
    LET cost_matrix == BuildCostMatrix(tasks, mtargets)
    IN  {[plan |-> p,
          total |-> SumTo([i \in 1..Len(tasks) |->
                              IF p[i] # 0 THEN cost_matrix[i][p[i]] ELSE 0],
                          Len(tasks)),
          unassigned |-> Cardinality({i \in 1..Len(tasks) : p[i] = 0})] :
            p \in OptimalPlans(cost_matrix, Len(tasks), Len(mtargets))}

\* can_transfer_in_grace_period: false on Err(NoAvailableInstances), else
\* total_time_seconds <= grace_period_seconds.
CanTransferInGracePeriod ==
    /\ ~transfer.done
    /\ IF displaced = <<>>
       THEN transfer' = [done |-> TRUE, err |-> FALSE, plan |-> <<>>, total |-> 0,
                         unassigned |-> 0, answer |-> (0 <= gracePeriod * 1000)]
       ELSE IF targets = <<>>
       THEN transfer' = [done |-> TRUE, err |-> TRUE, plan |-> Unassigned(displaced),
                         total |-> 0, unassigned |-> 0, answer |-> FALSE]
       ELSE \E m \in MigrationPlans(displaced,
                        [j \in 1..Len(targets) |-> FromInstance(targets[j])]) :
               transfer' = [done |-> TRUE, err |-> FALSE, plan |-> m.plan,
                            total |-> m.total, unassigned |-> m.unassigned,
                            answer |-> (m.total <= gracePeriod * 1000)]
    /\ UNCHANGED <<displaced, targets, gracePeriod, optimalPlan, naivePlan>>
    /\ UNCHANGED <<coreVars, peerVars, placeVars, memVars, elbVars, cmdVars, monVars, simVars>>

\* The instances offered: 24 GB each, empty or partly used, on a 1 or a
\* 10 Gbps link.
UsedMbs == {0, 16000}

BandwidthsGbps == {1, 10}

MigInstances ==
    [gpu_memory_gb : {SimGpuMemoryGb}, gpu_memory_used_mb : UsedMbs,
     network_bandwidth_gbps : BandwidthsGbps]

GracePeriods == {10, GRACE_PERIOD_SECONDS}

SeqsUpTo(S, n) == UNION {[1..k -> S] : k \in 0..n}

\* Any slice of tasks and any slice of instances, no planner called yet.
InitMigration ==
    /\ pc = "running" /\ guard = FALSE /\ exitKind = None /\ terminateCalls = <<>>
    /\ endpoint = NoNotice
    /\ FailoverIdle
    /\ peers = <<>> /\ strategy = "EarliestNode" /\ htimeout = 0
    /\ DrainIdle
    /\ dvariant = "orchestrator" /\ dtimeout = 0
    /\ running = 0 /\ waiting = 0 /\ metricsOk = TRUE /\ healthy = TRUE
    /\ PeersIdle
    /\ PlaceIdle
    /\ MemIdle
    /\ displaced \in SeqsUpTo(KvSizes, MaxReq)
    /\ targets \in SeqsUpTo(MigInstances, MaxPeers)
    /\ gracePeriod \in GracePeriods
    /\ optimalPlan = NoPlan
    /\ naivePlan = NoPlan
    /\ transfer = NoTransfer
    /\ ElbIdle
    /\ CmdIdle
    /\ MonIdle
    /\ SimIdle

NextMigration ==
    \/ PlanOptimalMigration
    \/ PlanNaiveMigration
    \/ CanTransferInGracePeriod

SpecMigration == InitMigration /\ [][NextMigration]_vars

\* ------------------------------------------------- LoadBalancerManager
\* TargetHealthStateEnum of the router's API, and "Absent" for a target the
\* group does not hold.
TargetHealthStates ==
    {"Initial", "Healthy", "Unhealthy", "Unused", "Draining", "Unavailable"}

\* The router's side of register_targets: a target that is absent or on its
\* way out starts over at Initial; a target already in the group is left as
\* it is.
RouterRegisterResets(h) == "Initial"

RouterRegister(h) == IF h \in {"Absent", "Draining"} THEN "Initial" ELSE h

\* The router's side of deregister_targets: connection draining starts for a
\* target of the group; nothing happens for one that is absent or draining.
RouterDeregister(h) == IF h \in {"Absent", "Draining"} THEN h ELSE "Draining"

\* get_target_health: Ok(Some(state)) for a target of the group, Ok(None)
\* for one the response does not list, Err when the request fails.
GetTargetHealth(h) == {IF h = "Absent" THEN "None" ELSE h, "Err"}

\* register_target: Ok(()) when the request is accepted, Err otherwise.
RegisterTarget ==
    /\ \E accepted \in BOOLEAN :
          /\ tgHealth' = IF accepted THEN RouterRegister(tgHealth) ELSE tgHealth
          /\ lastCall' = Called("register_target", TRUE, accepted)
    /\ UNCHANGED <<elbOp, elbPc, elbTimeout, elbElapsed, elbSeen, elbResult, elbDrain>>
    /\ UNCHANGED <<coreVars, peerVars, placeVars, memVars, migVars, cmdVars, monVars, simVars>>

\* deregister_target: Ok(()) when the request is accepted, Err otherwise.
DeregisterTarget ==
    /\ \E accepted \in BOOLEAN :
          /\ tgHealth' = IF accepted THEN RouterDeregister(tgHealth) ELSE tgHealth
          /\ lastCall' = Called("deregister_target", TRUE, accepted)
    /\ UNCHANGED <<elbOp, elbPc, elbTimeout, elbElapsed, elbSeen, elbResult, elbDrain>>
    /\ UNCHANGED <<coreVars, peerVars, placeVars, memVars, migVars, cmdVars, monVars, simVars>>

\* DrainManager::set_draining of either crate: it logs and returns Ok(()).
SetDraining ==
    /\ lastCall' = Called("set_draining", FALSE, TRUE)
    /\ UNCHANGED <<tgHealth, elbOp, elbPc, elbTimeout, elbElapsed, elbSeen, elbResult,
                   elbDrain>>
    /\ UNCHANGED <<coreVars, peerVars, placeVars, memVars, migVars, cmdVars, monVars, simVars>>

\* DrainManager::set_draining_with_elb (agent crate): with an elb_config the
\* result is that of deregister_target, without one it is Ok(()).
SetDrainingWithElb ==
    /\ \E configured \in BOOLEAN, accepted \in BOOLEAN :
          /\ tgHealth' = IF configured /\ accepted
                         THEN RouterDeregister(tgHealth) ELSE tgHealth
          /\ lastCall' = Called("set_draining_with_elb", configured, ~configured \/ accepted)
    /\ UNCHANGED <<elbOp, elbPc, elbTimeout, elbElapsed, elbSeen, elbResult, elbDrain>>
    /\ UNCHANGED <<coreVars, peerVars, placeVars, memVars, migVars, cmdVars, monVars, simVars>>

\* The router on its own: health checks move a registered target between
\* the states of the group, and a draining target leaves the group.
RouterAdvance ==
    /\ tgHealth # "Absent"
    /\ IF tgHealth = "Draining"
       THEN tgHealth' = "Absent"
       ELSE tgHealth' \in (TargetHealthStates \ {"Initial", "Draining", tgHealth})
    /\ UNCHANGED <<lastCall, elbOp, elbPc, elbTimeout, elbElapsed, elbSeen, elbResult,
                   elbDrain>>
    /\ UNCHANGED <<coreVars, peerVars, placeVars, memVars, migVars, cmdVars, monVars, simVars>>

ElbEnter(op, timeout) ==
    /\ elbOp' = op
    /\ elbPc' = "top"
    /\ elbTimeout' = timeout
    /\ elbElapsed' = 0
    /\ elbSeen' = None
    /\ elbResult' = None

ElbReturn(result, seen) ==
    /\ elbPc' = "returned"
    /\ elbResult' = result
    /\ elbSeen' = seen
    /\ UNCHANGED <<elbOp, elbTimeout, elbElapsed>>

ElbKeepPolling(seen) ==
    /\ elbPc' = "sleep"
    /\ elbSeen' = seen
    /\ UNCHANGED <<elbOp, elbTimeout, elbElapsed, elbResult>>

\* A caller invokes wait_for_healthy with some timeout.
WaitForHealthyCall ==
    /\ elbPc \in {"idle", "returned"}
    /\ \E timeout \in 0..MaxHealthTicks : ElbEnter("wait_for_healthy", timeout)
    /\ UNCHANGED <<tgHealth, lastCall, elbDrain>>
    /\ UNCHANGED <<coreVars, peerVars, placeVars, memVars, migVars, cmdVars, monVars, simVars>>

\* wait_for_healthy, top of the loop: start.elapsed() > timeout.
WaitForHealthyTimeout ==
    /\ elbOp = "wait_for_healthy"
    /\ elbPc = "top"
    /\ elbElapsed > elbTimeout
    /\ ElbReturn("ErrTimeout", elbSeen)
    /\ UNCHANGED <<tgHealth, lastCall, elbDrain>>
    /\ UNCHANGED <<coreVars, peerVars, placeVars, memVars, migVars, cmdVars, monVars, simVars>>

\* The return of wait_for_healthy's match: Ok(()) on Some(Healthy).
HealthyReturnsOnAny(seen) == TRUE

HealthyReturns(seen) == seen = "Healthy"

\* wait_for_healthy, one get_target_health and the match on its result.
WaitForHealthyPoll ==
    /\ elbOp = "wait_for_healthy"
    /\ elbPc = "top"
    /\ ~(elbElapsed > elbTimeout)
    /\ \E seen \in GetTargetHealth(tgHealth) :
          IF HealthyReturns(seen) THEN ElbReturn("Ok", seen) ELSE ElbKeepPolling(seen)
    /\ UNCHANGED <<tgHealth, lastCall, elbDrain>>
    /\ UNCHANGED <<coreVars, peerVars, placeVars, memVars, migVars, cmdVars, monVars, simVars>>

\* tokio::time::sleep(poll_interval) of either wait.
ElbSleep ==
    /\ elbPc = "sleep"
    /\ elbPc' = "top"
    /\ elbElapsed' = elbElapsed + 1
    /\ UNCHANGED <<elbOp, elbTimeout, elbSeen, elbResult>>
    /\ UNCHANGED <<tgHealth, lastCall, elbDrain>>
    /\ UNCHANGED <<coreVars, peerVars, placeVars, memVars, migVars, cmdVars, monVars, simVars>>

\* A caller invokes wait_for_drained with some timeout.
WaitForDrainedCall ==
    /\ elbPc \in {"idle", "returned"}
    /\ \E timeout \in 0..MaxHealthTicks : ElbEnter("wait_for_drained", timeout)
    /\ UNCHANGED <<tgHealth, lastCall, elbDrain>>
    /\ UNCHANGED <<coreVars, peerVars, placeVars, memVars, migVars, cmdVars, monVars, simVars>>

\* wait_for_drained, top of the loop: the timeout is answered with Ok(()).
WaitForDrainedTimeout ==
    /\ elbOp = "wait_for_drained"
    /\ elbPc = "top"
    /\ elbElapsed > elbTimeout
    /\ ElbReturn("Ok", elbSeen)
    /\ UNCHANGED <<tgHealth, lastCall, elbDrain>>
    /\ UNCHANGED <<coreVars, peerVars, placeVars, memVars, migVars, cmdVars, monVars, simVars>>

\* The returns of wait_for_drained's match: Ok(()) on Ok(None) and on Err.
DrainedReturns(seen) == seen \in {"None", "Err"}

\* wait_for_drained, one get_target_health and the match on its result.
WaitForDrainedPoll ==
    /\ elbOp = "wait_for_drained"
    /\ elbPc = "top"
    /\ ~(elbElapsed > elbTimeout)
    /\ \E seen \in GetTargetHealth(tgHealth) :
          IF DrainedReturns(seen) THEN ElbReturn("Ok", seen) ELSE ElbKeepPolling(seen)
    /\ UNCHANGED <<tgHealth, lastCall, elbDrain>>
    /\ UNCHANGED <<coreVars, peerVars, placeVars, memVars, migVars, cmdVars, monVars, simVars>>

\* A process that owns a LoadBalancerManager, next to the router.
InitElb ==
    /\ pc = "running" /\ guard = FALSE /\ exitKind = None /\ terminateCalls = <<>>
    /\ endpoint = NoNotice
    /\ FailoverIdle
    /\ peers = <<>> /\ strategy = "EarliestNode" /\ htimeout = 0
    /\ DrainIdle
    /\ dvariant = "agent" /\ dtimeout = 0
    /\ running = 0 /\ waiting = 0 /\ metricsOk = TRUE /\ healthy = TRUE
    /\ PeersIdle
    /\ PlaceIdle
    /\ MemIdle
    /\ MigIdle
    /\ ElbIdle
    /\ CmdIdle
    /\ MonIdle
    /\ SimIdle

ElbWaitStep ==
    \/ WaitForHealthyTimeout
    \/ WaitForHealthyPoll
    \/ WaitForDrainedTimeout
    \/ WaitForDrainedPoll
    \/ ElbSleep

NextElb ==
    \/ RegisterTarget
    \/ DeregisterTarget
    \/ SetDraining
    \/ SetDrainingWithElb
    \/ RouterAdvance
    \/ WaitForHealthyCall
    \/ WaitForDrainedCall
    \/ ElbWaitStep

SpecElb == InitElb /\ [][NextElb]_vars

\* drain_with_elb (agent crate), up to tokio::join!: set_draining_with_elb
\* and its ?, then the two futures start. Without an elb_config the second
\* future has nothing to wait for.
DrainWithElbCall ==
    /\ pc = "running"
    /\ dvariant = "agent"
    /\ elbDrain.state = "idle"
    /\ \E configured \in BOOLEAN, accepted \in BOOLEAN :
          /\ lastCall' = Called("set_draining_with_elb", configured, ~configured \/ accepted)
          /\ IF configured /\ ~accepted
             THEN /\ elbDrain' = [state |-> "Err", status |-> None]
                  /\ UNCHANGED <<tgHealth, elbOp, elbPc, elbTimeout, elbElapsed, elbSeen,
                                 elbResult>>
                  /\ UNCHANGED drainVars
             ELSE /\ elbDrain' = [state |-> "joining", status |-> None]
                  /\ DrainEnter
                  /\ IF configured
                     THEN /\ tgHealth' = RouterDeregister(tgHealth)
                          /\ ElbEnter("wait_for_drained", dtimeout)
                     ELSE /\ elbPc' = "returned"
                          /\ elbOp' = None
                          /\ UNCHANGED <<tgHealth, elbTimeout, elbElapsed, elbSeen, elbResult>>
    /\ UNCHANGED <<nodeVars, failVars, ssmVars, engineVars>>
    /\ UNCHANGED <<peerVars, placeVars, memVars, migVars, cmdVars, monVars, simVars>>

\* drain_with_elb after tokio::join!: the result of wait_for_drained is
\* dropped, the status of wait_for_inflight goes into the DrainResult.
DrainWithElbReturn ==
    /\ elbDrain.state = "joining"
    /\ dpc = "returned"
    /\ elbPc = "returned"
    /\ elbDrain' = [state |-> "Ok", status |-> dstatus]
    /\ UNCHANGED <<tgHealth, lastCall, elbOp, elbPc, elbTimeout, elbElapsed, elbSeen,
                   elbResult>>
    /\ UNCHANGED <<coreVars, peerVars, placeVars, memVars, migVars, cmdVars, monVars, simVars>>

\* An agent that owns a DrainManager with any drain_timeout, with or without
\* an elb_config, and calls drain_with_elb once, next to the router and to an
\* engine whose endpoints answer; the node is a healthy target of the group.
InitDrainElb ==
    /\ pc = "running" /\ guard = FALSE /\ exitKind = None /\ terminateCalls = <<>>
    /\ endpoint = NoNotice
    /\ FailoverIdle
    /\ peers = <<>> /\ strategy = "EarliestNode" /\ htimeout = 0
    /\ DrainIdle
    /\ dvariant = "agent"
    /\ dtimeout \in 0..MaxDrainTicks
    /\ running = 0 /\ waiting = 0 /\ metricsOk = TRUE /\ healthy = TRUE
    /\ PeersIdle
    /\ PlaceIdle
    /\ MemIdle
    /\ MigIdle
    /\ tgHealth = "Healthy"
    /\ lastCall = NoCall
    /\ elbOp = None
    /\ elbPc = "idle"
    /\ elbTimeout = 0
    /\ elbElapsed = 0
    /\ elbSeen = None
    /\ elbResult = None
    /\ elbDrain = NoDrainWithElb
    /\ CmdIdle
    /\ MonIdle
    /\ SimIdle

NextDrainElb ==
    \/ DrainWithElbCall
    \/ DrainWithElbReturn
    \/ DrainTimeout
    \/ AgentFetchRunning
    \/ AgentFetchWaiting
    \/ WaitForDrainedTimeout
    \/ WaitForDrainedPoll
    \/ ElbSleep
    \/ RouterAdvance
    \/ EngineArrive
    \/ EngineSchedule
    \/ EngineComplete

SpecDrainElb == InitDrainElb /\ [][NextDrainElb]_vars

\* The waits run on the async runtime: a poll that can be made is made, and
\* a sleep ends.
SpecElbLive == SpecElb /\ WF_vars(ElbWaitStep)

\* ----------------------------------------------------------- SsmExecutor
\* CommandInvocationStatus of the command channel, and those of its values
\* that are terminal.
CommandInvocationStatuses ==
    {"Pending", "InProgress", "Delayed", "Success", "Cancelled", "TimedOut", "Failed",
     "Cancelling"}

TerminalStatuses == {"Success", "Failed", "Cancelled", "TimedOut"}

\* MAX_WAIT_DURATION_SECS, in poll intervals.
MaxWaitTicks == MaxSsmCalls + 1

WfcReturn(result, seen) ==
    /\ wfcPc' = "returned"
    /\ wfcResult' = result
    /\ wfcSeen' = seen
    /\ UNCHANGED <<cmdStatus, cmdId, wfcElapsed>>

\* run_command up to wait_for_command: send_command fails, or the channel
\* takes the command as Pending and names it.
RunCommand ==
    /\ wfcPc \in {"idle", "returned"}
    /\ cmdId < MaxSsmCalls + 1
    /\ \E sent \in BOOLEAN :
          IF sent
          THEN /\ cmdId' = cmdId + 1
               /\ cmdStatus' = "Pending"
               /\ wfcPc' = "top"
               /\ wfcElapsed' = 0
               /\ wfcSeen' = None
               /\ wfcResult' = NoCommandResult
          ELSE /\ wfcPc' = "returned"
               /\ wfcResult' = [kind |-> "ErrDocker", command_id |-> 0, status |-> None]
               /\ wfcSeen' = None
               /\ UNCHANGED <<cmdStatus, cmdId, wfcElapsed>>
    /\ UNCHANGED <<coreVars, peerVars, placeVars, memVars, migVars, elbVars, monVars, simVars>>

\* wait_for_command, top of the loop: start.elapsed() > max_wait.
WaitForCommandTimeout ==
    /\ wfcPc = "top"
    /\ wfcElapsed > MaxWaitTicks
    /\ WfcReturn([kind |-> "ErrTimeout", command_id |-> cmdId, status |-> None], wfcSeen)
    /\ UNCHANGED <<coreVars, peerVars, placeVars, memVars, migVars, elbVars, monVars, simVars>>

\* The match of wait_for_command on the reported status: what it returns,
\* or "continue" for the arms that fall through to the sleep.
CommandOutcome(status, command_id) ==
    CASE status = "Success" ->
            [kind |-> "Ok", command_id |-> command_id, status |-> "Success"]
      [] status = "Failed" ->
            [kind |-> "Ok", command_id |-> command_id, status |-> "Failed"]
      [] status = "Cancelled" ->
            [kind |-> "ErrDocker", command_id |-> command_id, status |-> None]
      [] status = "TimedOut" ->
            [kind |-> "ErrTimeout", command_id |-> command_id, status |-> None]
      [] OTHER -> [kind |-> "continue", command_id |-> command_id, status |-> None]

\* wait_for_command, one get_command_invocation (Err ends the wait through ?)
\* and the match on its status.
WaitForCommandPoll ==
    /\ wfcPc = "top"
    /\ ~(wfcElapsed > MaxWaitTicks)
    /\ \E answered \in BOOLEAN :
          IF ~answered
          THEN WfcReturn([kind |-> "ErrDocker", command_id |-> cmdId, status |-> None],
                         "Err")
          ELSE LET out == CommandOutcome(cmdStatus, cmdId)
               IN  IF out.kind = "continue"
                   THEN /\ wfcPc' = "sleep"
                        /\ wfcSeen' = cmdStatus
                        /\ UNCHANGED <<cmdStatus, cmdId, wfcElapsed, wfcResult>>
                   ELSE WfcReturn(out, cmdStatus)
    /\ UNCHANGED <<coreVars, peerVars, placeVars, memVars, migVars, elbVars, monVars, simVars>>

\* tokio::time::sleep(poll_interval) of wait_for_command.
WaitForCommandSleep ==
    /\ wfcPc = "sleep"
    /\ wfcPc' = "top"
    /\ wfcElapsed' = wfcElapsed + 1
    /\ UNCHANGED <<cmdStatus, cmdId, wfcSeen, wfcResult>>
    /\ UNCHANGED <<coreVars, peerVars, placeVars, memVars, migVars, elbVars, monVars, simVars>>

\* The command channel: an invocation that is not terminal moves on.
ChannelAdvance ==
    /\ cmdStatus \in CommandInvocationStatuses \ TerminalStatuses
    /\ cmdStatus' \in CommandInvocationStatuses \ {"Pending", cmdStatus}
    /\ UNCHANGED <<cmdId, wfcPc, wfcElapsed, wfcSeen, wfcResult>>
    /\ UNCHANGED <<coreVars, peerVars, placeVars, memVars, migVars, elbVars, monVars, simVars>>

\* A process that owns an SsmExecutor, next to the command channel.
InitSsm ==
    /\ pc = "running" /\ guard = FALSE /\ exitKind = None /\ terminateCalls = <<>>
    /\ endpoint = NoNotice
    /\ FailoverIdle
    /\ peers = <<>> /\ strategy = "EarliestNode" /\ htimeout = 0
    /\ DrainIdle
    /\ dvariant = "orchestrator" /\ dtimeout = 0
    /\ running = 0 /\ waiting = 0 /\ metricsOk = TRUE /\ healthy = TRUE
    /\ PeersIdle
    /\ PlaceIdle
    /\ MemIdle
    /\ MigIdle
    /\ ElbIdle
    /\ CmdIdle
    /\ MonIdle
    /\ SimIdle

NextSsm ==
    \/ RunCommand
    \/ WaitForCommandTimeout
    \/ WaitForCommandPoll
    \/ WaitForCommandSleep
    \/ ChannelAdvance

SpecSsm == InitSsm /\ [][NextSsm]_vars

\* ------------------------------------------------------------ SpotMonitor
\* Bodies of a 200: a notice (JSON with a known action and an RFC 3339 time),
\* JSON that is not a SpotInstanceAction, a notice with an unknown action, a
\* notice with a bad timestamp. Other statuses come with a page, not JSON.
Bodies == {"notice", "malformed", "unknown_action", "bad_time"}

Answers ==
    {Answer("connect_err", 0, "none"), Answer("timeout_err", 0, "none")}
        \cup {Answer("ok", 200, b) : b \in Bodies}
        \cup {Answer("ok", st, "html") : st \in {404, 500}}

\* response.json::<SpotInstanceAction>() reads the body whatever the status.
JsonOk(a) == a.body \in {"notice", "unknown_action", "bad_time"}

\* SpotAction::from_str and DateTime::parse_from_rfc3339 on the parsed body.
Parseable(a) == a.body = "notice"

\* reqwest: send() is Ok(response) for every status; its Err carries no
\* status, so e.status() == Some(NOT_FOUND) is false for every Err.
CheckNotice(a) ==
    CASE a.send = "connect_err" -> "OkNone"
      [] a.send = "timeout_err" -> "ErrHttp"
      [] ~JsonOk(a) -> "ErrHttp"
      [] ~Parseable(a) -> "ErrConfig"
      [] OTHER -> "OkSome"

\* A caller invokes check_notice.
CheckNoticeCall ==
    /\ checkAnswer' = imds
    /\ checkResult' = CheckNotice(imds)
    /\ <<checkAnswer', checkResult'>> # <<checkAnswer, checkResult>>
    /\ UNCHANGED <<imds, monPc, monPolls, monYields>>
    /\ UNCHANGED <<coreVars, peerVars, placeVars, memVars, migVars, elbVars, cmdVars, simVars>>

\* The nested ifs of monitor_stream that lead to the yield.
YieldsOnAnyJson(a) == a.send = "ok" /\ JsonOk(a)

Yields(a) == a.send = "ok" /\ a.status = 200 /\ JsonOk(a) /\ Parseable(a)

\* One turn of monitor_stream's loop while the consumer awaits the next
\* item: the tick, the request, the match; the loop has no exit.
StreamPoll ==
    /\ monPc = "tick"
    /\ monPolls < MaxFailovers + 1
    /\ monPolls' = monPolls + 1
    /\ monYields' = IF Yields(imds) THEN monYields + 1 ELSE monYields
    /\ monPc' = "tick"
    /\ UNCHANGED <<imds, checkAnswer, checkResult>>
    /\ UNCHANGED <<coreVars, peerVars, placeVars, memVars, migVars, elbVars, cmdVars, simVars>>

\* The endpoint changes how it answers.
EndpointChange ==
    /\ imds' \in Answers \ {imds}
    /\ UNCHANGED <<monPc, monPolls, monYields, checkAnswer, checkResult>>
    /\ UNCHANGED <<coreVars, peerVars, placeVars, memVars, migVars, elbVars, cmdVars, simVars>>

\* A process that owns a SpotMonitor, consumes its stream and calls
\* check_notice, next to the metadata endpoint.
InitMonitor ==
    /\ pc = "running" /\ guard = FALSE /\ exitKind = None /\ terminateCalls = <<>>
    /\ endpoint = NoNotice
    /\ FailoverIdle
    /\ peers = <<>> /\ strategy = "EarliestNode" /\ htimeout = 0
    /\ DrainIdle
    /\ dvariant = "orchestrator" /\ dtimeout = 0
    /\ running = 0 /\ waiting = 0 /\ metricsOk = TRUE /\ healthy = TRUE
    /\ PeersIdle
    /\ PlaceIdle
    /\ MemIdle
    /\ MigIdle
    /\ ElbIdle
    /\ CmdIdle
    /\ imds \in Answers
    /\ monPc = "tick"
    /\ monPolls = 0
    /\ monYields = 0
    /\ checkAnswer = NoAnswer
    /\ checkResult = None
    /\ SimIdle

NextMonitor ==
    \/ CheckNoticeCall
    \/ StreamPoll
    \/ EndpointChange

SpecMonitor == InitMonitor /\ [][NextMonitor]_vars

\* -------------------------------------------------------------- Simulator
\* The tasks handed to add_task before run and the instances the run may
\* launch. One tick is one hour.
MaxTasks == MaxReq + 2

MaxInstances == MaxPeers

InstanceTypes == {"Spot", "OnDemand"}

\* The arrival times add_task is called with: the tasks arrive one hour
\* apart, or the first two together.
ArrivalTimes(t) == {t - 1, IF t = 1 THEN 0 ELSE t - 2}

\* Durations of the tasks, in hours.
TaskDurations == {40}

\* hours_until_preemption, drawn from an exponential distribution: any
\* non-negative time; here before and after the tasks of the instance end.
PreemptionDelays == {5, 50}

RunDurations == {60}

NoTime == 0 - 1

\* Task::checkpoint_state: None.
NoCheckpoint == [some |-> FALSE, tokens_saved |-> 0, kv_cache_saved_mb |-> 0]

\* Task::new: tokens_total is duration * 100 and kv_cache_size_mb is
\* duration * 200, at most 8000.
TaskNew(arrival_time, duration) ==
    [arrival_time |-> arrival_time,
     duration |-> duration,
     remaining_time |-> duration,
     tokens_total |-> duration * 100,
     tokens_completed |-> 0,
     kv_cache_size_mb |-> IF duration * 200 < 8000 THEN duration * 200 ELSE 8000,
     checkpoint_state |-> NoCheckpoint,
     assigned_instance |-> 0,
     start_time |-> NoTime,
     completion_time |-> NoTime,
     preemption_count |-> 0]

\* Instance::new.
InstanceNew(instance_type) ==
    [instance_type |-> instance_type,
     state |-> "Running",
     gpu_memory_gb |-> SimGpuMemoryGb,
     gpu_memory_used_mb |-> 0,
     network_bandwidth_gbps |-> 10]

TimedEvent(time, kind, id) == [time |-> time, kind |-> kind, id |-> id]

\* Task::is_completed.
IsCompleted(task) == task.completion_time # NoTime

SeqRange(q) == {q[i] : i \in 1..Len(q)}

\* The orders a HashMap can iterate the keys S in.
IterationOrders(S) ==
    {o \in [1..Cardinality(S) -> S] : \A i, j \in 1..Cardinality(S) : i # j => o[i] # o[j]}

RECURSIVE SelectSeq2(_, _, _)
\* The subsequence of q, from position i on, of the elements in S.
SelectSeq2(q, S, i) ==
    IF i > Len(q) THEN <<>>
    ELSE (IF q[i] \in S THEN <<q[i]>> ELSE <<>>) \o SelectSeq2(q, S, i + 1)

\* A pop that takes any event of the queue, whatever its time.
PoppableInAnyOrder == eventQueue

\* BinaryHeap::pop under TimedEvent::cmp, which compares the times only: an
\* event of the least time, any one of them when several have that time.
\* (Two equal events in the heap are handled as one here: the second is
\* always skipped or repeats the first.)
Poppable == {e \in eventQueue : \A f \in eventQueue : e.time <= f.time}

\* find_available_instance: the first instance, in the map's iteration
\* order, that is running and has the memory; 0 for None.
FindAvailableInstance(insts, order, kv) ==
    LET fits == {k \in 1..Len(order) :
                    /\ insts[order[k]].state = "Running"
                    /\ CanFitInMemory(kv,
                           SimAvailableMemoryMb(insts[order[k]].gpu_memory_used_mb))}
    IN  IF fits = {} THEN 0 ELSE order[CHOOSE k \in fits : \A l \in fits : k <= l]

\* First pass of assign_pending_tasks: every pending task is looked up
\* against the instances as they are before the sweep.
FirstPass(st, order) ==
    [p \in 1..Len(st.pending) |->
        FindAvailableInstance(st.instances, order, st.tasks[st.pending[p]].kv_cache_size_mb)]

RECURSIVE SecondPass(_, _, _, _)
\* Second pass: the pairs of the first pass in order; a pair whose
\* assign_task answers false changes nothing.
SecondPass(st, found, now, p) ==
    IF p > Len(st.pending) THEN st
    ELSE LET t == st.pending[p]
             i == found[p]
             kv == st.tasks[t].kv_cache_size_mb
         IN  IF i # 0 /\ CanFitInMemory(kv,
                            SimAvailableMemoryMb(st.instances[i].gpu_memory_used_mb))
             THEN SecondPass(
                    [st EXCEPT !.instances[i].gpu_memory_used_mb = @ + kv,
                               !.tasks[t].assigned_instance = i,
                               !.tasks[t].start_time = now,
                               !.queue = @ \cup {TimedEvent(now + st.tasks[t].remaining_time,
                                                            "TaskCompletion", t)}],
                    found, now, p + 1)
             ELSE SecondPass(st, found, now, p + 1)

RECURSIVE ThirdPass(_, _, _, _, _)
\* Third pass, launch_instance_for_task for every task the first pass found
\* no instance for: the instance is inserted running, its launch event is
\* pushed at the current time and, for a spot instance, its preemption at
\* the drawn time. choice gives, per task, the type the policy selects and
\* the delay drawn.
ThirdPass(st, needing, choice, now, k) ==
    IF k > Len(needing) THEN st
    ELSE LET id == Len(st.instances) + 1
             c == choice[needing[k]]
         IN  ThirdPass(
                [st EXCEPT !.instances = Append(@, InstanceNew(c.instance_type)),
                           !.queue = @ \cup {TimedEvent(now, "InstanceLaunch", id)}
                                       \cup (IF c.instance_type = "Spot"
                                             THEN {TimedEvent(now + c.delay,
                                                              "InstancePreemption", id)}
                                             ELSE {})],
                needing, choice, now, k + 1)

\* The pending queue after the sweep: retain drops every task the first
\* pass found an instance for.
RetainPending(queued, found) ==
    SelectSeq2(queued, {queued[p] : p \in {q \in 1..Len(queued) : found[q] = 0}}, 1)

LaunchChoices == [instance_type : InstanceTypes, delay : PreemptionDelays]

\* assign_pending_tasks on the simulator state st, then the handler's
\* return: the state it leaves, for the event e just handled.
AssignPendingTasks(st, order, e, displacedIds) ==
    LET found == FirstPass(st, order)
        second == SecondPass(st, found, e.time, 1)
        needing == SelectSeq2(st.pending,
                      {st.pending[p] : p \in {q \in 1..Len(st.pending) : found[q] = 0}}, 1)
    IN  /\ Len(st.instances) + Len(needing) <= MaxInstances
        /\ \E choice \in [SeqRange(needing) -> LaunchChoices] :
              LET third == ThirdPass(second, needing, choice, e.time, 1)
              IN  /\ simInstances' = third.instances
                  /\ simTasks' = third.tasks
                  /\ eventQueue' = third.queue
                  /\ pendingTasks' = RetainPending(st.pending, found)
        /\ currentTime' = e.time
        /\ lastEvent' = e
        /\ affected' = displacedIds
        /\ swept' = st.pending
        /\ UNCHANGED <<simPc, simDuration>>

SimState(queue) ==
    [tasks |-> simTasks, instances |-> simInstances, pending |-> pendingTasks,
     queue |-> queue]

\* handle_task_arrival.
HandleTaskArrival ==
    /\ simPc = "running"
    /\ \E e \in Poppable :
          /\ e.time <= simDuration
          /\ e.kind = "TaskArrival"
          /\ \E order \in IterationOrders(1..Len(simInstances)) :
                AssignPendingTasks(
                    [SimState(eventQueue \ {e}) EXCEPT !.pending = Append(@, e.id)],
                    order, e, {})
    /\ UNCHANGED <<coreVars, peerVars, placeVars, memVars, migVars, elbVars, cmdVars,
                   monVars>>

\* handle_instance_launch.
HandleInstanceLaunch ==
    /\ simPc = "running"
    /\ \E e \in Poppable :
          /\ e.time <= simDuration
          /\ e.kind = "InstanceLaunch"
          /\ \E order \in IterationOrders(1..Len(simInstances)) :
                AssignPendingTasks(SimState(eventQueue \ {e}), order, e, {})
    /\ UNCHANGED <<coreVars, peerVars, placeVars, memVars, migVars, elbVars, cmdVars,
                   monVars>>

\* handle_task_completion: a completed task is skipped; otherwise the task
\* gets its completion time and the instance it is assigned to, if any,
\* releases its memory.
HandleTaskCompletion ==
    /\ simPc = "running"
    /\ \E e \in Poppable :
          /\ e.time <= simDuration
          /\ e.kind = "TaskCompletion"
          /\ LET task == simTasks[e.id]
                 i == task.assigned_instance
             IN  IF IsCompleted(task)
                 THEN UNCHANGED <<simTasks, simInstances>>
                 ELSE /\ simTasks' = [simTasks EXCEPT ![e.id].completion_time = e.time]
                      /\ simInstances' =
                            IF i = 0 THEN simInstances
                            ELSE [simInstances EXCEPT ![i].gpu_memory_used_mb =
                                    IF @ - task.kv_cache_size_mb < 0 THEN 0
                                    ELSE @ - task.kv_cache_size_mb]
          /\ eventQueue' = eventQueue \ {e}
          /\ currentTime' = e.time
          /\ lastEvent' = e
    /\ affected' = {}
    /\ swept' = <<>>
    /\ UNCHANGED <<simPc, simDuration, pendingTasks>>
    /\ UNCHANGED <<coreVars, peerVars, placeVars, memVars, migVars, elbVars, cmdVars,
                   monVars>>

\* checkpoint.rs, GRACE_PERIOD_SECONDS.
SimGracePeriodSeconds == 120

\* FULL_CHECKPOINT_THRESHOLD and PARTIAL_CHECKPOINT_THRESHOLD, in tenths.
FULL_CHECKPOINT_THRESHOLD == 8

PARTIAL_CHECKPOINT_THRESHOLD == 3

\* calculate_transferable_data: Gbps * 125 MB/s over the grace period.
CalculateTransferableData(instance) ==
    instance.network_bandwidth_gbps * 125 * SimGracePeriodSeconds

\* checkpoint_ratio >= threshold, the ratio being transferable_mb /
\* kv_cache_size_mb (all tasks have a positive kv_cache_size_mb).
RatioAtLeast(transferable_mb, kv_cache_size_mb, tenths) ==
    transferable_mb * 10 >= tenths * kv_cache_size_mb

\* Task::progress_percentage() >= 95.0.
NearlyComplete(task) ==
    task.tokens_total # 0 /\ task.tokens_completed * 100 >= 95 * task.tokens_total

\* calculate_tokens_saved: tokens_completed * checkpoint_ratio, truncated.
CalculateTokensSaved(task, transferable_mb) ==
    (task.tokens_completed * transferable_mb) \div task.kv_cache_size_mb

Decision(kind, transferable_mb, tokens_saved) ==
    [kind |-> kind, transferable_mb |-> transferable_mb, tokens_saved |-> tokens_saved]

\* plan_checkpoint. remaining_time is in hours.
PlanCheckpoint(task, instance) ==
    LET transferable_mb == CalculateTransferableData(instance)
        kv == task.kv_cache_size_mb
    IN  IF task.tokens_completed = 0 THEN Decision("Restart", 0, 0)
        ELSE IF NearlyComplete(task) /\ task.remaining_time * 3600 <= SimGracePeriodSeconds
        THEN Decision("FullCheckpoint", kv, task.tokens_completed)
        ELSE IF RatioAtLeast(transferable_mb, kv, FULL_CHECKPOINT_THRESHOLD)
        THEN Decision("FullCheckpoint",
                      IF kv < transferable_mb THEN kv ELSE transferable_mb,
                      task.tokens_completed)
        ELSE IF RatioAtLeast(transferable_mb, kv, PARTIAL_CHECKPOINT_THRESHOLD)
        THEN Decision("PartialCheckpoint", transferable_mb,
                      CalculateTokensSaved(task, transferable_mb))
        ELSE Decision("Restart", 0, 0)

\* execute_checkpoint.
ExecuteCheckpoint(task, decision) ==
    IF decision.kind = "Restart"
    THEN [task EXCEPT !.checkpoint_state = NoCheckpoint]
    ELSE [task EXCEPT !.checkpoint_state =
                         [some |-> TRUE, tokens_saved |-> decision.tokens_saved,
                          kv_cache_saved_mb |-> decision.transferable_mb]]

\* apply_checkpoint_recovery: the time saved is duration * tokens_saved /
\* tokens_total (rounded down here).
ApplyCheckpointRecovery(task) ==
    IF task.checkpoint_state.some /\ task.tokens_total > 0
    THEN [task EXCEPT !.tokens_completed = task.checkpoint_state.tokens_saved,
                      !.remaining_time =
                          task.duration - (task.duration * task.checkpoint_state.tokens_saved)
                                              \div task.tokens_total]
    ELSE task

RECURSIVE ApplyPlan(_, _, _, _, _, _)
\* The loop of migrate_tasks_optimally over the migration plan: plan[k] is
\* the position in available of the instance for the k-th displaced task.
ApplyPlan(st, displacedSeq, available, plan, now, k) ==
    IF k > Len(displacedSeq) THEN st
    ELSE LET t == displacedSeq[k]
             i == IF plan[k] = 0 THEN 0 ELSE available[plan[k]]
             kv == st.tasks[t].kv_cache_size_mb
             recovered == ApplyCheckpointRecovery(st.tasks[t])
         IN  IF i # 0 /\ CanFitInMemory(kv,
                            SimAvailableMemoryMb(st.instances[i].gpu_memory_used_mb))
             THEN ApplyPlan(
                    [st EXCEPT !.instances[i].gpu_memory_used_mb = @ + kv,
                               !.tasks[t] = [recovered EXCEPT !.assigned_instance = i,
                                                              !.start_time = now],
                               !.queue = @ \cup {TimedEvent(now + recovered.remaining_time,
                                                            "TaskCompletion", t)}],
                    displacedSeq, available, plan, now, k + 1)
             ELSE IF i # 0
             THEN ApplyPlan([st EXCEPT !.tasks[t] = recovered],
                            displacedSeq, available, plan, now, k + 1)
             ELSE ApplyPlan(st, displacedSeq, available, plan, now, k + 1)

\* The tasks handle_preemption finds on the instance.
AffectedTaskIds(instance_id) ==
    {t \in DOMAIN simTasks :
        simTasks[t].assigned_instance = instance_id /\ ~IsCompleted(simTasks[t])}

\* handle_preemption for an instance that is not a running spot instance:
\* nothing changes. A preemption is scheduled for spot instances only, once
\* each, and nothing else ends an instance, so run never takes this branch
\* and it is left out of NextSim.
HandlePreemptionSkip ==
    /\ simPc = "running"
    /\ \E e \in Poppable :
          /\ e.time <= simDuration
          /\ e.kind = "InstancePreemption"
          /\ \/ simInstances[e.id].instance_type # "Spot"
             \/ simInstances[e.id].state # "Running"
          /\ eventQueue' = eventQueue \ {e}
          /\ currentTime' = e.time
          /\ lastEvent' = e
    /\ affected' = {}
    /\ swept' = <<>>
    /\ UNCHANGED <<simPc, simDuration, simInstances, simTasks, pendingTasks>>
    /\ UNCHANGED <<coreVars, peerVars, placeVars, memVars, migVars, elbVars, cmdVars,
                   monVars>>

\* handle_preemption of a running spot instance that holds no task: the
\* instance is marked preempted and migrate_tasks_optimally returns at once.
HandlePreemptionEmpty ==
    /\ simPc = "running"
    /\ \E e \in Poppable :
          /\ e.time <= simDuration
          /\ e.kind = "InstancePreemption"
          /\ simInstances[e.id].instance_type = "Spot"
          /\ simInstances[e.id].state = "Running"
          /\ AffectedTaskIds(e.id) = {}
          /\ simInstances' = [simInstances EXCEPT ![e.id].state = "Preempted"]
          /\ eventQueue' = eventQueue \ {e}
          /\ currentTime' = e.time
          /\ lastEvent' = e
    /\ affected' = {}
    /\ swept' = <<>>
    /\ UNCHANGED <<simPc, simDuration, simTasks, pendingTasks>>
    /\ UNCHANGED <<coreVars, peerVars, placeVars, memVars, migVars, elbVars, cmdVars,
                   monVars>>

\* handle_preemption of a running spot instance with tasks on it: the
\* checkpoint of every affected task is planned and executed, then
\* migrate_tasks_optimally runs, with the sweep it ends with.
HandlePreemption ==
    /\ simPc = "running"
    /\ \E e \in Poppable :
          /\ e.time <= simDuration
          /\ e.kind = "InstancePreemption"
          /\ simInstances[e.id].instance_type = "Spot"
          /\ simInstances[e.id].state = "Running"
          /\ AffectedTaskIds(e.id) # {}
          /\ \E displacedSeq \in IterationOrders(AffectedTaskIds(e.id)),
                order \in IterationOrders(1..Len(simInstances)) :
                LET instances1 == [simInstances EXCEPT ![e.id].state = "Preempted"]
                    tasks1 == [t \in DOMAIN simTasks |->
                                 IF t \in AffectedTaskIds(e.id)
                                 THEN [ExecuteCheckpoint(
                                           simTasks[t],
                                           PlanCheckpoint(simTasks[t], simInstances[e.id]))
                                       EXCEPT !.preemption_count = @ + 1,
                                              !.assigned_instance = 0]
                                 ELSE simTasks[t]]
                    available == SelectSeq2(order,
                                    {i \in 1..Len(instances1) :
                                        instances1[i].state = "Running"}, 1)
                    kvs == [k \in 1..Len(displacedSeq) |->
                              tasks1[displacedSeq[k]].kv_cache_size_mb]
                    insts == [j \in 1..Len(available) |-> instances1[available[j]]]
                    plans == IF available = <<>>
                             THEN {Unassigned(displacedSeq)}
                             ELSE OptimalPlans(SimBuildCostMatrix(kvs, insts),
                                               Len(kvs), Len(insts))
                IN  \E plan \in plans :
                       LET st1 == ApplyPlan([tasks |-> tasks1, instances |-> instances1,
                                             pending |-> pendingTasks,
                                             queue |-> eventQueue \ {e}],
                                            displacedSeq, available, plan, e.time, 1)
                           left == SelectSeq2(displacedSeq,
                                      {t \in SeqRange(displacedSeq) :
                                          st1.tasks[t].assigned_instance = 0}, 1)
                       IN  AssignPendingTasks([st1 EXCEPT !.pending = @ \o left],
                                              order, e, SeqRange(displacedSeq))
    /\ UNCHANGED <<coreVars, peerVars, placeVars, memVars, migVars, elbVars, cmdVars,
                   monVars>>

\* run: the queue is empty, or the popped event lies beyond the duration.
RunEnd ==
    /\ simPc = "running"
    /\ \/ eventQueue = {} /\ UNCHANGED eventQueue
       \/ \E e \in Poppable : e.time > simDuration /\ eventQueue' = eventQueue \ {e}
    /\ simPc' = "ended"
    /\ affected' = {}
    /\ swept' = <<>>
    /\ lastEvent' = NoEvent
    /\ UNCHANGED <<simDuration, currentTime, simInstances, simTasks, pendingTasks>>
    /\ UNCHANGED <<coreVars, peerVars, placeVars, memVars, migVars, elbVars, cmdVars,
                   monVars>>

\* Simulator::new, then add_task for every task, then run about to start.
InitSim ==
    /\ pc = "running" /\ guard = FALSE /\ exitKind = None /\ terminateCalls = <<>>
    /\ endpoint = NoNotice
    /\ FailoverIdle
    /\ peers = <<>> /\ strategy = "EarliestNode" /\ htimeout = 0
    /\ DrainIdle
    /\ dvariant = "orchestrator" /\ dtimeout = 0
    /\ running = 0 /\ waiting = 0 /\ metricsOk = TRUE /\ healthy = TRUE
    /\ PeersIdle
    /\ PlaceIdle
    /\ MemIdle
    /\ MigIdle
    /\ ElbIdle
    /\ CmdIdle
    /\ MonIdle
    /\ simPc = "running"
    /\ simDuration \in RunDurations
    /\ currentTime = 0
    /\ \E n \in 1..MaxTasks :
       \E arrival \in {a \in [1..n -> 0..MaxTasks] :
                          /\ \A t \in 1..n : a[t] \in ArrivalTimes(t)
                          /\ \A t, u \in 1..n : t < u => a[t] <= a[u]},
          duration \in [1..n -> TaskDurations] :
          /\ simTasks = [t \in 1..n |-> TaskNew(arrival[t], duration[t])]
          /\ eventQueue = {TimedEvent(arrival[t], "TaskArrival", t) : t \in 1..n}
    /\ simInstances = <<>>
    /\ pendingTasks = <<>>
    /\ lastEvent = NoEvent
    /\ affected = {}
    /\ swept = <<>>

NextSim ==
    \/ HandleTaskArrival
    \/ HandleInstanceLaunch
    \/ HandleTaskCompletion
    \/ HandlePreemptionEmpty
    \/ HandlePreemption
    \/ RunEnd

SpecSim == InitSim /\ [][NextSim]_vars

\* A run shorter than any preemption delay and any task, with as many
\* tasks as the run may launch instances; a task's kv_cache_size_mb is what
\* Task::new gave it or is set afterwards to more than an instance has (the
\* field is public).
ShortRunDurations == {4}

KvOverrides == {8000, 30000}

InitSimLaunch ==
    /\ pc = "running" /\ guard = FALSE /\ exitKind = None /\ terminateCalls = <<>>
    /\ endpoint = NoNotice
    /\ FailoverIdle
    /\ peers = <<>> /\ strategy = "EarliestNode" /\ htimeout = 0
    /\ DrainIdle
    /\ dvariant = "orchestrator" /\ dtimeout = 0
    /\ running = 0 /\ waiting = 0 /\ metricsOk = TRUE /\ healthy = TRUE
    /\ PeersIdle
    /\ PlaceIdle
    /\ MemIdle
    /\ MigIdle
    /\ ElbIdle
    /\ CmdIdle
    /\ MonIdle
    /\ simPc = "running"
    /\ simDuration \in ShortRunDurations
    /\ currentTime = 0
    /\ \E n \in 1..MaxInstances :
       \E arrival \in {a \in [1..n -> 0..MaxTasks] :
                          /\ \A t \in 1..n : a[t] \in ArrivalTimes(t)
                          /\ \A t, u \in 1..n : t < u => a[t] <= a[u]},
          duration \in [1..n -> TaskDurations],
          kv \in [1..n -> KvOverrides] :
          /\ simTasks = [t \in 1..n |->
                           [TaskNew(arrival[t], duration[t])
                               EXCEPT !.kv_cache_size_mb = kv[t]]]
          /\ eventQueue = {TimedEvent(arrival[t], "TaskArrival", t) : t \in 1..n}
    /\ simInstances = <<>>
    /\ pendingTasks = <<>>
    /\ lastEvent = NoEvent
    /\ affected = {}
    /\ swept = <<>>

\* In so short a run every completion and every preemption lies beyond the
\* duration: run handles arrivals and launches and then ends.
NextSimLaunch ==
    \/ HandleTaskArrival
    \/ HandleInstanceLaunch
    \/ RunEnd

\* run is one sequential loop: it keeps popping while it can.
SpecSimLaunch == InitSimLaunch /\ [][NextSimLaunch]_vars /\ WF_vars(NextSimLaunch)

\* ------------------------------------- monitor task and peer refresher
\* run_orchestrator hands PeerDiscovery::peers_ref() to the monitor task:
\* `let instances = candidates_clone.read().await` takes a read guard on the
\* refresher's RwLock, candidate_refs borrows from it, and the guard lives to
\* the end of the block, past handle_preemption(...).await.
ReadGuardHeld == inflight > 0

\* parse_ec2_instance: the Ec2Instance built for a listed instance. EC2
\* reports a private address for every running instance.
SnapshotCandidates(i) == {c \in CandidateAt(i) : c.has_ip}

\* The Vec<Ec2Instance> snapshots whose instances are ids, in the order
\* describe_instances listed them.
SnapshotLists(ids) ==
    UNION {{[k \in 1..Cardinality(ids) |-> f[o[k]]] :
              f \in {g \in [ids -> UNION {SnapshotCandidates(i) : i \in ids}] :
                        \A i \in ids : g[i] \in SnapshotCandidates(i)}} :
           o \in IterationOrders(ids)}

\* The monitor task starts a failover: read() is granted while no write
\* guard is held, and the candidates are built from the snapshot it guards.
NodeMonitorPollStart ==
    /\ ReadAllowed(writer)
    /\ StreamPolled(mpc)
    /\ endpoint # NoNotice
    /\ \E cands \in SnapshotLists(cache) : MonitorPollStartWith(cands)

\* The refresher's self.peers.write().await: granted when no guard of either
\* kind is held.
NodeRefresherLock ==
    /\ ~ReadGuardHeld
    /\ RefresherLock

\* run_orchestrator after it has spawned the refresher and the monitor
\* task, all peers up and an interruption notice posted.
InitNodePeers ==
    /\ pc = "running" /\ guard = TRUE /\ exitKind = None /\ terminateCalls = <<>>
    /\ endpoint \in Notices
    /\ FailoverIdle
    /\ peers = <<>>
    /\ strategy = "WarmLeastLoaded"
    /\ htimeout = MaxHealthTicks
    /\ DrainIdle
    /\ dvariant = "orchestrator"
    /\ dtimeout = MaxDrainTicks
    /\ running = 0 /\ waiting = 0 /\ metricsOk = TRUE /\ healthy = TRUE
    /\ cloud = [i \in PeerIds |-> "running"]
    /\ cache = {}
    /\ stable = {}
    /\ pending = [t \in DiscoveryTasks |-> NoResult]
    /\ writer = None
    /\ lastRead = {}
    /\ selfSkipped = FALSE
    /\ PlaceIdle
    /\ MemIdle
    /\ MigIdle
    /\ ElbIdle
    /\ CmdIdle
    /\ MonIdle
    /\ SimIdle

NextNodePeers ==
    \/ NodeMonitorPollStart
    \/ MonitorPollSkip
    \/ OrchDrainPoll
    \/ FailoverDrainDone
    \/ FailoverSelectNone
    \/ FailoverSelectSome
    \/ FailoverSpawn
    \/ FailoverHealthTimeout
    \/ FailoverHealthPoll
    \/ FailoverReturn
    \/ RefresherQuery
    \/ NodeRefresherLock
    \/ RefresherStore

SpecNodePeers == InitNodePeers /\ [][NextNodePeers]_vars

\* ============================================================== claims

\* C1: once the guard exists, every way out of run_orchestrator (return,
\* error, panic) has called terminate() for the node's own instance, once.
C1_EveryExitTerminates ==
    (pc = "exited" /\ guard) => Len(terminateCalls) = 1

\* run_orchestrator unwound from a panic after the guard was created.
C1_Witness ==
    pc = "exited" /\ guard /\ exitKind = "panic" /\ Len(terminateCalls) = 1

C3_UnreadableHealthyNotDrained ==
    (dpc = "returned" /\ dstatus = "Drained")
        => ~(~lastPoll.readable /\ lastPoll.healthy)

\* C4: when drain returns Drained both gauges of the engine are zero, and
\* the poll that ended it read no gauge above zero.
C4_DrainedMeansZeroGauges ==
    (dpc = "returned" /\ dstatus = "Drained")
        => (gaugesAtReturn = <<0, 0>> /\ ~lastPoll.readNonZero)

\* C5: every step of the node that starts a failover (handle_preemption is
\* entered, its drain begins) is taken on a notice whose action is Terminate.
C5_OnlyTerminateStartsFailover ==
    [][(\/ started' # started
        \/ (dpc = "idle" /\ dpc' # "idle")
        \/ (mpc = "next" /\ mpc' = "Drain"))
          => (endpoint.action = "Terminate" /\ notice' = endpoint)]_vars

\* A failover ran for a Terminate notice; a Stop or Hibernate notice
\* yielded afterwards started none.
C5_Witness ==
    /\ pc = "running" /\ mpc = "next"
    /\ lastYield \in {"Stop", "Hibernate"}
    /\ started = 1 /\ notice.action = "Terminate"

\* C6: at most one handle_preemption is in flight on a node, and while one
\* is in flight no notice is taken from the stream and no failover starts.
C6_OneFailoverInFlight ==
    [][/\ inflight' <= 1
       /\ inflight >= 1 => (started' = started /\ lastYield' = lastYield)]_vars

\* A failover is in flight and the endpoint carries another Terminate
\* notice within the grace period.
C6_Witness ==
    /\ inflight = 1
    /\ endpoint # NoNotice /\ endpoint # notice
    /\ endpoint.action = "Terminate"
    /\ endpoint.seconds_until_action <= GRACE_PERIOD_SECONDS

\* C7: when no candidate has room for the workload the failover ends with a
\* failure record whose error is "No suitable replacement instance
\* available" and which names no replacement; Spawn and HealthCheck are not
\* entered.
C7_NoReplacementRecord ==
    LET nofit == \A i \in DOMAIN peers :
                    peers[i].gpu_memory_gb * 1024 - peers[i].gpu_memory_used_mb
                        < WorkloadMemoryMb
    IN  /\ nofit => /\ mpc \notin {"Spawn", "HealthCheck"}
                    /\ ~Entered("Spawn") /\ ~Entered("HealthCheck")
                    /\ replacement = 0 /\ healthPolls = 0
        /\ (nofit /\ record.made)
              => /\ ~record.success
                 /\ record.replacement = NoReplacement
                 /\ record.error = "No suitable replacement instance available"

\* There were candidates, none fitted, and the record has been built.
C7_Witness ==
    /\ Len(peers) > 0
    /\ record.made
    /\ record.error = "No suitable replacement instance available"
    /\ Entered("Select")

C9_TimeoutAttachedToRecord ==
    (hcResult = "ErrTimeout" /\ record.made)
        => (record.success /\ record.error # None)

\* C10: a failover that has entered HealthCheck has dispatched a
\* container-start command to its replacement through the SsmExecutor.
C10_HealthCheckAfterDispatch ==
    Entered("HealthCheck") => replacement \in ssmStarted

\* C11: the node's own instance id is in no peer snapshot: not in the cache,
\* not in a result about to be stored, not in what a reader was given.
C11_SelfNeverInSnapshot ==
    /\ SelfId \notin cache
    /\ SelfId \notin stable
    /\ SelfId \notin lastRead
    /\ \A t \in DiscoveryTasks : SelfId \notin pending[t].peers

\* A response listed the node itself, and a reader has since been given a
\* snapshot with a peer in it.
C11_Witness ==
    selfSkipped /\ stable # {} /\ lastRead = stable

\* C12: whatever get_peers returns is the value a completed write of one
\* discovery stored (or the initial empty snapshot), whole.
C12_NoTornRead ==
    [][lastRead' # lastRead => lastRead' = stable]_vars

\* The refresher holds the write lock with the Vec half assigned, and the
\* last reader was given the complete snapshot stored before.
C12_Witness ==
    /\ writer = "refresher"
    /\ cache # stable /\ cache # pending["refresher"].peers
    /\ lastRead = stable /\ lastRead # {}

\* C13: select returns None exactly when no candidate has free memory
\* (total - used) of at least the requirement; free memory equal to the
\* requirement is enough.
C13_NoneIffNoneFits ==
    selected.done =>
        (selected.idx = 0 <=>
            \A i \in DOMAIN candidates :
                candidates[i].gpu_memory_gb * 1024 - candidates[i].gpu_memory_used_mb
                    < WorkloadMemoryMb)

\* select returned a candidate whose free memory equals the requirement.
C13_Witness ==
    /\ selected.done /\ selected.idx # 0
    /\ candidates[selected.idx].gpu_memory_gb * 1024
          - candidates[selected.idx].gpu_memory_used_mb = WorkloadMemoryMb
    /\ \E i \in DOMAIN candidates :
          candidates[i].gpu_memory_gb * 1024 - candidates[i].gpu_memory_used_mb
              < WorkloadMemoryMb

\* C14: among the viable candidates EarliestNode returns one of minimal
\* launch time and LeastLoaded one of minimal active request count.
C14_MinimalKey ==
    LET viable == {i \in DOMAIN candidates :
                      candidates[i].gpu_memory_gb * 1024
                          - candidates[i].gpu_memory_used_mb >= WorkloadMemoryMb}
    IN  (selected.done /\ selected.idx # 0) =>
           /\ selected.idx \in viable
           /\ assigner = "EarliestNode" =>
                 \A j \in viable :
                    candidates[selected.idx].launch_time <= candidates[j].launch_time
           /\ assigner = "LeastLoaded" =>
                 \A j \in viable :
                    candidates[selected.idx].active_requests
                        <= candidates[j].active_requests

\* EarliestNode passed over a viable candidate listed first for one
\* launched earlier.
C14_Witness ==
    /\ selected.done /\ selected.idx > 1
    /\ assigner = "EarliestNode"
    /\ candidates[1].gpu_memory_gb * 1024 - candidates[1].gpu_memory_used_mb
          >= WorkloadMemoryMb
    /\ candidates[selected.idx].launch_time < candidates[1].launch_time

\* C15: WarmLeastLoaded returns the least loaded of the viable candidates
\* that have the workload's model loaded, and the least loaded of all viable
\* candidates only when none of them has it.
C15_WarmFirst ==
    LET viable == {i \in DOMAIN candidates :
                      candidates[i].gpu_memory_gb * 1024
                          - candidates[i].gpu_memory_used_mb >= WorkloadMemoryMb}
        warm == {i \in viable : candidates[i].has_model}
        pool == IF warm = {} THEN viable ELSE warm
    IN  (selected.done /\ selected.idx # 0 /\ assigner = "WarmLeastLoaded") =>
           /\ selected.idx \in pool
           /\ \A j \in pool :
                 candidates[selected.idx].active_requests
                     <= candidates[j].active_requests

\* WarmLeastLoaded returned a warm candidate although a cold viable one
\* carries less load.
C15_Witness ==
    /\ selected.done /\ selected.idx # 0 /\ assigner = "WarmLeastLoaded"
    /\ candidates[selected.idx].has_model
    /\ \E j \in DOMAIN candidates :
          /\ ~candidates[j].has_model
          /\ candidates[j].gpu_memory_gb * 1024 - candidates[j].gpu_memory_used_mb
                >= WorkloadMemoryMb
          /\ candidates[j].active_requests < candidates[selected.idx].active_requests

\* C16: when several viable candidates share the minimal key, EarliestNode
\* and LeastLoaded return the one with the smallest id, whatever the order
\* of the candidates.
C16_TieBreakBySmallestId ==
    LET viable == {i \in DOMAIN candidates :
                      candidates[i].gpu_memory_gb * 1024
                          - candidates[i].gpu_memory_used_mb >= WorkloadMemoryMb}
        key(i) == IF assigner = "EarliestNode" THEN candidates[i].launch_time
                  ELSE candidates[i].active_requests
    IN  (selected.done /\ selected.idx # 0
            /\ assigner \in {"EarliestNode", "LeastLoaded"}) =>
           \A j \in viable :
              key(j) = key(selected.idx) => candidates[selected.idx].id <= candidates[j].id

\* C17: select never returns a node whose lifecycle state is not Running.
C17_OnlyRunningSelected ==
    (selected.done /\ selected.idx # 0) => candidates[selected.idx].state = "Running"

\* C18: at every time the memory in use on a node is at most its total,
\* in the simulator's Instance and in the orchestrator's Ec2Instance.
C18_UsedAtMostTotal ==
    /\ simUsedMb <= SimTotalMb
    /\ ec2UsedMb <= Ec2TotalMb

\* Every task fits every offered instance: all costs of the matrix are finite.
AllCostsFinite ==
    \A i \in 1..Len(displaced) : \A j \in 1..Len(targets) :
        SimMigrationCost(displaced[i], targets[j]) # Infinity

\* C19: for tasks and targets whose costs are all finite, the total cost of
\* the plan of the optimal planner is at most the total cost of the plan of
\* the first-fit planner on the same input.
C19_OptimalAtMostFirstFit ==
    (optimalPlan.done /\ naivePlan.done /\ AllCostsFinite)
        => CalculateTotalCost(displaced, targets, optimalPlan.plan)
               <= CalculateTotalCost(displaced, targets, naivePlan.plan)

\* C20: can_transfer_in_grace_period answers true only if every task has a
\* target in the plan and the plan's total transfer time is within the grace
\* budget.
C20_TrueOnlyIfAllAssignedInTime ==
    (transfer.done /\ transfer.answer)
        => /\ \A i \in 1..Len(displaced) : transfer.plan[i] # 0
           /\ transfer.total <= gracePeriod * 1000

\* C21: wait_for_healthy returns Ok only on a poll that reported the target
\* Healthy; a poll that reports anything else does not end the wait; a wait
\* that ends without Healthy ends with the timeout error, after the timeout
\* has elapsed; and every wait ends.
C21_HealthyGatesSuccess ==
    /\ [](elbOp = "wait_for_healthy" =>
            /\ (elbResult = "Ok" => elbSeen = "Healthy")
            /\ (elbPc = "sleep" => elbSeen # "Healthy" /\ elbResult = None)
            /\ (elbPc = "returned" /\ elbSeen # "Healthy" =>
                    elbResult = "ErrTimeout" /\ elbElapsed > elbTimeout))
    /\ ((elbOp = "wait_for_healthy" /\ elbPc # "returned") ~> elbPc = "returned")

\* wait_for_healthy returned Ok after a poll that saw another state.
C21_Witness ==
    /\ elbOp = "wait_for_healthy" /\ elbPc = "returned"
    /\ elbResult = "Ok" /\ elbElapsed > 0

\* C22: wait_for_drained returns before its timeout only when the target is
\* gone from the group (or reported drained, a state the router's API does
\* not have), and a timeout is answered with Ok.
C22_EarlyReturnOnlyWhenDrained ==
    (elbOp = "wait_for_drained" /\ elbPc = "returned") =>
        /\ elbResult = "Ok"
        /\ (~(elbElapsed > elbTimeout) => elbSeen = "None")

C29_FailedRecordOnDeregisterError ==
    (lastCall.op = "set_draining_with_elb" /\ ~lastCall.ok /\ elbDrain.state # "idle")
        => (elbDrain.state = "Ok" /\ elbDrain.status = "Failed")

\* C23: when run_command returns on a terminal status of the command
\* (Success, Failed, Cancelled, TimedOut), it returns Ok with a CommandResult
\* that names the command and carries that same status.
C23_TerminalStatusInResult ==
    (wfcPc = "returned" /\ wfcSeen \in TerminalStatuses)
        => /\ wfcResult.kind = "Ok"
           /\ wfcResult.command_id = cmdId
           /\ wfcResult.status = wfcSeen

\* C24: a poll of the stream yields a notice exactly when it is answered 200
\* with a parseable payload; on a 404, an unreachable endpoint or a malformed
\* payload it yields nothing; after every poll the stream is back at its tick.
C24_YieldOnlyOnParseable200 ==
    [][monPolls' # monPolls =>
          /\ (monYields' = monYields + 1) <=>
                 (imds.send = "ok" /\ imds.status = 200 /\ imds.body = "notice")
          /\ (monYields' = monYields) <=>
                 ~(imds.send = "ok" /\ imds.status = 200 /\ imds.body = "notice")
          /\ monPc' = "tick"]_vars

\* The stream polled twice and yielded once: one poll was answered without a
\* notice and the stream went on.
C24_Witness ==
    monPolls = 2 /\ monYields = 1 /\ monPc = "tick"

\* C25: check_notice returns Ok(None) when the endpoint answers 404.
C25_NotFoundIsOkNone ==
    (checkAnswer.send = "ok" /\ checkAnswer.status = 404) => checkResult = "OkNone"

\* C26: once a failover has finished on the node (handle_preemption has
\* returned its record), the node eventually calls terminate() for itself.
C26_FailoverLeadsToSelfTerminate ==
    (record.made /\ mpc = "next" /\ inflight = 0) ~> (Len(terminateCalls) > 0)

\* C27: a shutdown signal that arrives while a failover is in flight does
\* not cut the failover's current phase: the phase is still running after the
\* signal has been taken, so that it can complete before the process exits.
C27_ShutdownLetsPhaseFinish ==
    [][(pc = "running" /\ pc' = "stopping" /\ inflight > 0)
          => (inflight' = inflight /\ mpc' = mpc)]_vars

\* C30: once handle_preemption has handled the preemption of a spot
\* instance, every task it displaced is either assigned to a running
\* instance or in the pending queue.
C30_DisplacedPlacedOrPending ==
    lastEvent.kind = "InstancePreemption" =>
        \A t \in affected :
            \/ /\ simTasks[t].assigned_instance # 0
               /\ simInstances[simTasks[t].assigned_instance].state = "Running"
            \/ t \in SeqRange(pendingTasks)

\* C31: run pops the events in non-decreasing time order: the simulation
\* clock never moves backwards, and no event left in the queue is earlier
\* than the clock.
C31_ClockNeverMovesBackwards ==
    [][/\ currentTime' >= currentTime
       /\ \A e \in eventQueue' : e.time >= currentTime']_vars

C31_Witness ==
    /\ lastEvent.kind = "InstancePreemption"
    /\ currentTime > 0
    /\ \E e \in eventQueue : e.kind = "TaskCompletion" /\ e.time > currentTime
    /\ \E e \in eventQueue : e.kind = "InstanceLaunch" /\ e.time = currentTime

C33_NoStaleCompletion ==
    [][\A t \in DOMAIN simTasks :
          (/\ simTasks[t].preemption_count > 0
           /\ simTasks[t].completion_time = NoTime
           /\ simTasks'[t].completion_time # NoTime)
          => /\ simTasks[t].assigned_instance # 0
             /\ simTasks'[t].completion_time =
                   simTasks[t].start_time + simTasks[t].remaining_time]_vars

\* C34: a sweep of the pending queue removes a task from the queue only if
\* it assigned the task to an instance: every task the sweep found in the
\* queue is afterwards still in the queue or assigned.
C34_SweepRemovesOnlyAssigned ==
    \A k \in 1..Len(swept) :
        swept[k] \notin SeqRange(pendingTasks) =>
            simTasks[swept[k]].assigned_instance # 0

\* C35: on one node a failover is started at most once: once a failover
\* has finished, a Terminate notice seen by a later poll starts no other.
C35_FailoverStartedAtMostOnce == started <= 1

\* C36: while a failover is in flight the refresher can still take the
\* writer lock: when it has a result to store and no other writer holds the
\* lock, its write() is granted.
C36_RefresherCanWriteDuringFailover ==
    (inflight > 0 /\ pending["refresher"].some /\ writer = None)
        => ENABLED NodeRefresherLock

\* C37: the replacement a failover of run_orchestrator records is never the
\* preempted node itself (the node the process runs on).
C37_ReplacementIsNotSelf ==
    (record.made /\ Entered("Spawn")) => record.replacement # SelfId

C37_Witness ==
    /\ record.made
    /\ record.success
    /\ Entered("Spawn")
    /\ selfSkipped
    /\ Len(peers) = MaxPeers
    /\ record.replacement \in PeerIds

\* C38: a drain whose first poll finds the engine with zero running and zero
\* waiting requests returns Drained from that poll, without sleeping a poll
\* interval.
C38_IdleDrainReturnsDrained ==
    [][(/\ dpc \in {"top", "fetchWaiting"}
        /\ delapsed = 0
        /\ running = 0 /\ waiting = 0
        /\ obsRunning.value = 0
        /\ (dpc' = "returned" \/ delapsed' > delapsed))
       => (dpc' = "returned" /\ dstatus' = "Drained")]_vars

\* The position of an event kind in the declaration of Event.
KindRank(kind) ==
    CASE kind = "TaskArrival" -> 1
      [] kind = "TaskCompletion" -> 2
      [] kind = "InstancePreemption" -> 3
      [] OTHER -> 4

\* C39: of the queued events of equal time the one popped comes first in
\* event-kind order: TaskArrival, TaskCompletion, InstancePreemption,
\* InstanceLaunch.
C39_EqualTimePoppedInKindOrder ==
    [][(lastEvent' \in eventQueue /\ lastEvent' # lastEvent)
       => \A f \in eventQueue :
             f.time = lastEvent'.time => KindRank(lastEvent'.kind) <= KindRank(f.kind)]_vars

\* C40: the checkpoint a displaced task is left with follows the ratio
\* bandwidth x grace / kv_cache_MB of its last preemption: at 0.8 or more
\* a full checkpoint (the whole KV cache, or all that can be transferred),
\* from 0.3 up to 0.8 a partial one (what can be transferred), below 0.3
\* none (restart). Every instance has the bandwidth of Instance::new.
C40_CheckpointPlanFollowsRatio ==
    \A t \in DOMAIN simTasks :
        simTasks[t].preemption_count > 0 =>
            LET transferable_mb == CalculateTransferableData(InstanceNew("Spot"))
                kv == simTasks[t].kv_cache_size_mb
                cs == simTasks[t].checkpoint_state
            IN  IF RatioAtLeast(transferable_mb, kv, FULL_CHECKPOINT_THRESHOLD)
                THEN cs.some /\ cs.kv_cache_saved_mb =
                                   (IF kv < transferable_mb THEN kv ELSE transferable_mb)
                ELSE IF RatioAtLeast(transferable_mb, kv, PARTIAL_CHECKPOINT_THRESHOLD)
                THEN cs.some /\ cs.kv_cache_saved_mb = transferable_mb
                ELSE ~cs.some

====
